---- MODULE Spec2Model ----
(***************************************************************************)
(* A model of SourceContext (the per-file analysis unit of vscode-antlr4): *)
(* the reference mesh between contexts (addAsReferenceTo,                  *)
(* removeDependency, getReferenceCount) and the parse cycle of one context *)
(* (setText, parse, the lazily run semantic pass, setupInterpreters).      *)
(*                                                                         *)
(* A context is a record whose fields carry the names of the class's       *)
(* fields.  The analysis core is synchronous: a call runs to completion    *)
(* before the next one starts, so every handler is one action, except the  *)
(* two whose termination is in question (the breadth-first walk of         *)
(* addAsReferenceTo and the recursion of getReferenceCount), which are     *)
(* stepped one loop iteration / one recursive call at a time while `pc`    *)
(* keeps every other call out.                                             *)
(*                                                                         *)
(* Further parts: the process-wide table of built-in symbols (constructor),*)
(* the extraction of a rule's graph from an automaton (getATNGraph, one    *)
(* step per loop iteration), sentence generation and test input            *)
(* (generateSentence, lexTestInput, parseTestInput) and the generation     *)
(* runs (generate), the one asynchronous operation: its stderr and close   *)
(* handlers are actions of their own.  The readers hasErrors and           *)
(* resolveSymbol and the two functions that read no field                  *)
(* (intervalSetToStrings, parseTreeFromPosition) are applied to inputs     *)
(* drawn in the initial states of their specifications.                    *)
(***************************************************************************)
EXTENDS Integers, Sequences, FiniteSets, TLC

\* The source contexts of the process (one per open grammar file).
Contexts == {"A", "B", "C"}

\* The context whose parse cycle SpecParse explores.
ParseContexts == {"A"}

\* SourceContext.globalSymbols, as a dependency of a symbol table.
Global == "Global"

\* undefined
None == "none"

\* Symbol names asked for in getReferenceCount.
Names == {"r", "s"}

\* The walk of addAsReferenceTo is followed while its work list is no longer than this.
MaxPipeline == 4

\* The recursion of getReferenceCount is followed down to this depth.
MaxDepth == 5

\* Passes of the semantic analysis counted per parse generation (the count saturates here).
MaxRuns == 2

(***************************************************************************)
(* Grammar texts.  A text is what the editor hands to setText; the model   *)
(* keeps of it what the ANTLR runtime and the listeners make of it:        *)
(*   kind     the grammar header (lexer / parser / combined / none)        *)
(*   lex      token recognition errors the lexer reports while the token   *)
(*            stream fetches its tokens (once: fetched tokens are buffered) *)
(*   fast     how grammarSpec() ends under BailErrorStrategy + SLL:        *)
(*            "tree", "cancel" (ParseCancellationException) or "throw"     *)
(*            (any other exception)                                        *)
(*   bail     errors reported to the error listener before the bail        *)
(*            strategy cancels (reportError precedes recover)              *)
(*   general  how grammarSpec() ends under DefaultErrorStrategy + LL,      *)
(*            "tree" or "throw"                                            *)
(*   syn      syntax errors the recovering run reports                     *)
(*   sem      diagnostics the semantic listener adds                       *)
(*   symbols  the definitions the details listener enters                  *)
(*   refs     the references to each name the semantic listener counts     *)
(***************************************************************************)
TextDef ==
  [ clean    |-> [kind |-> "Combined", lex |-> 0, fast |-> "tree",   bail |-> 0,
                  general |-> "tree",  syn |-> 0, sem |-> 0, symbols |-> {"r"},      refs |-> [r |-> 1, s |-> 0]],
    lexer    |-> [kind |-> "Lexer",    lex |-> 0, fast |-> "tree",   bail |-> 0,
                  general |-> "tree",  syn |-> 0, sem |-> 0, symbols |-> {"s"},      refs |-> [r |-> 0, s |-> 0]],
    parser   |-> [kind |-> "Parser",   lex |-> 0, fast |-> "tree",   bail |-> 0,
                  general |-> "tree",  syn |-> 0, sem |-> 1, symbols |-> {"r", "s"}, refs |-> [r |-> 2, s |-> 1]],
    ambig    |-> [kind |-> "Combined", lex |-> 0, fast |-> "cancel", bail |-> 0,
                  general |-> "tree",  syn |-> 0, sem |-> 0, symbols |-> {"r"},      refs |-> [r |-> 1, s |-> 0]],
    synerr   |-> [kind |-> "Parser",   lex |-> 0, fast |-> "cancel", bail |-> 1,
                  general |-> "tree",  syn |-> 1, sem |-> 1, symbols |-> {"r"},      refs |-> [r |-> 0, s |-> 0]],
    lexerr   |-> [kind |-> "Combined", lex |-> 1, fast |-> "cancel", bail |-> 0,
                  general |-> "tree",  syn |-> 1, sem |-> 0, symbols |-> {"r"},      refs |-> [r |-> 1, s |-> 0]],
    empty    |-> [kind |-> "Unknown",  lex |-> 0, fast |-> "cancel", bail |-> 1,
                  general |-> "tree",  syn |-> 1, sem |-> 0, symbols |-> {},         refs |-> [r |-> 0, s |-> 0]],
    crash    |-> [kind |-> "Unknown",  lex |-> 0, fast |-> "throw",  bail |-> 0,
                  general |-> "tree",  syn |-> 0, sem |-> 0, symbols |-> {},         refs |-> [r |-> 0, s |-> 0]],
    crashLL  |-> [kind |-> "Unknown",  lex |-> 0, fast |-> "cancel", bail |-> 0,
                  general |-> "throw", syn |-> 0, sem |-> 0, symbols |-> {},         refs |-> [r |-> 0, s |-> 0]] ]

Texts == DOMAIN TextDef

\* The texts the contexts of the mesh hold (they parse without raising).
MeshTexts == [A |-> "clean", B |-> "parser", C |-> "clean"]

VARIABLES
  ctx,        \* ctx[c]: the fields of source context c
  pc,         \* the call in progress: "idle", "addAsReferenceTo" or "getReferenceCount"
  self,       \* `this` of the call in progress
  arg,        \* its context argument
  sym,        \* its symbol argument
  pipeline,   \* addAsReferenceTo: the work list
  walkSeen,   \* history: the work lists this walk has held
  stack,      \* getReferenceCount: the active calls, innermost last
  runs,       \* history: runs[c] = semantic passes started on c since its last parse
  hist,       \* history: the last call made and the fields of its context before it
  constructed,    \* the contexts whose constructor has run
  globalSymbols,  \* SourceContext.globalSymbols: the names defined in it, in order
  atnGraph,       \* getATNGraph: its locals, its position and, at the end, its result
  output,         \* what the last sentence or test-input request gave its caller
  jobs,           \* generate: the generation runs started, each with its promise
  pureCall        \* a function that reads no field: its arguments and, once called, its result

\* The state of the process outside the fields of the contexts.
extVars == <<constructed, globalSymbols, atnGraph, output, jobs, pureCall>>

vars == <<ctx, pc, self, arg, sym, pipeline, walkSeen, stack, runs, hist, extVars>>

callVars == <<pc, self, arg, sym, pipeline, walkSeen, stack>>

----------------------------------------------------------------------------
(* Sequences *)

Range(s) == {s[i] : i \in 1..Len(s)}

IndexOf(s, x) ==
  IF x \in Range(s) THEN CHOOSE i \in 1..Len(s) : s[i] = x /\ \A j \in 1..(i - 1) : s[j] # x
  ELSE 0

\* Array.splice(index, 1), index counted from 1
Splice(s, i) == [k \in 1..(Len(s) - 1) |-> IF k < i THEN s[k] ELSE s[k + 1]]

IsPrefix(s, t) == Len(s) <= Len(t) /\ \A i \in 1..Len(s) : s[i] = t[i]

Repeat(x, n) == [i \in 1..n |-> x]

----------------------------------------------------------------------------
(* A context after construction *)

NoRefs == [r |-> 0, s |-> 0]

EmptyTable == [symbols |-> {}, refs |-> NoRefs, dependencies |-> {}]

NewContext ==
  [ fileName             |-> "base.g4",
    tokenStream          |-> [text |-> None, fetched |-> FALSE],
    parser               |-> None,
    tree                 |-> None,
    infoType             |-> "Unknown",
    imports              |-> {},
    diagnostics          |-> <<>>,
    references           |-> <<>>,
    semanticAnalysisDone |-> FALSE,
    rrdScripts           |-> [defined |-> FALSE, rules |-> {}],
    grammarLexerData     |-> None,
    grammarLexerRuleMap  |-> {},
    grammarParserData    |-> None,
    grammarParserRuleMap |-> {},
    symbolTable          |-> EmptyTable ]

\* History: the last call made (op on context ctx with argument arg), whether it
\* raised, how the attempts of a parse ended, whether the call before it was the
\* same call, the number or the truth value it returned, and the fields of its context before the call.
NoCall == [op |-> None, ctx |-> None, arg |-> None, raised |-> FALSE,
           fast |-> None, general |-> None, again |-> FALSE, result |-> 0,
           answer |-> FALSE, attempts |-> <<>>, pre |-> NewContext]

Call(op, c, a, raised, fast, general) ==
  [op |-> op, ctx |-> c, arg |-> a, raised |-> raised, fast |-> fast, general |-> general,
   again |-> (hist.op = op /\ hist.ctx = c /\ hist.arg = a), result |-> 0,
   answer |-> FALSE, attempts |-> <<>>, pre |-> ctx[c]]

----------------------------------------------------------------------------
(* What the listeners report *)

\* ContextLexerErrorListener: one Error entry per token recognition error.
LexerErrors(t) == Repeat([type |-> "Error", message |-> "token recognition error"], TextDef[t].lex)

\* ContextErrorListener, during the fail-fast run.
BailReports(t) == Repeat([type |-> "Error", message |-> "syntax error"], TextDef[t].bail)

\* ContextErrorListener, during the recovering run.
SyntaxErrors(t) == Repeat([type |-> "Error", message |-> "syntax error"], TextDef[t].syn)

\* SemanticListener: the entries it adds for the tree of text t.
SemanticDiagnostics(t) == Repeat([type |-> "Warning", message |-> "semantic"], TextDef[t].sem)

\* DetailsListener: the table after the walk of the tree of text t (the table was
\* cleared and given the global table as its dependency before the walk).
DetailsWalk(table, t) == [table EXCEPT !.symbols = TextDef[t].symbols]

\* SemanticListener: the reference counts it determines.
CountReferences(table, t) == [table EXCEPT !.refs = TextDef[t].refs]

\* DetailsListener: the grammars the tree imports.
Imports(t) == IF t \in {"clean", "parser"} THEN {"imported"} ELSE {}

\* RuleVisitor: one script per rule of the tree.
RuleScripts(t) == [defined |-> TRUE, rules |-> TextDef[t].symbols]

----------------------------------------------------------------------------
(* setText *)

\* A setText() whose last statement was not commented out.
SetTextDropsParser(s, t) ==
  [s EXCEPT !.tokenStream = [text |-> t, fetched |-> FALSE], !.parser = None]

\* The parser of the last parse() stays: it reads the stream it was made for.
SetText(s, t) == [s EXCEPT !.tokenStream = [text |-> t, fetched |-> FALSE]]

----------------------------------------------------------------------------
(* parse *)

\* A parse() that kept the interpreter data.
ParseResetKeepsData(s) ==
  [s EXCEPT !.parser = s.tokenStream.text,
            !.tree = None,
            !.infoType = "Unknown",
            !.imports = {},
            !.grammarLexerRuleMap = {},
            !.semanticAnalysisDone = FALSE,
            !.diagnostics = <<>>,
            !.symbolTable = [EmptyTable EXCEPT !.dependencies = {Global}]]

\* A parse() that cleared the symbol table and did not add the global table again.
ParseResetWithoutGlobal(s) ==
  [s EXCEPT !.parser = s.tokenStream.text,
            !.tree = None,
            !.infoType = "Unknown",
            !.imports = {},
            !.grammarLexerData = None,
            !.grammarLexerRuleMap = {},
            !.grammarParserData = None,
            !.semanticAnalysisDone = FALSE,
            !.diagnostics = <<>>,
            !.symbolTable = EmptyTable]

\* The state parse() sets up before it runs the parser.
ParseReset(s) ==
  [s EXCEPT !.parser = s.tokenStream.text,
            !.tree = None,
            !.infoType = "Unknown",
            !.imports = {},
            !.grammarLexerData = None,
            !.grammarLexerRuleMap = {},
            !.grammarParserData = None,
            \* the second clear() is again on grammarLexerRuleMap: grammarParserRuleMap is kept
            !.semanticAnalysisDone = FALSE,
            !.diagnostics = <<>>,
            !.symbolTable = [EmptyTable EXCEPT !.dependencies = {Global}]]

\* A catch block that retried after every exception.
RetriesAfterAnyException(fast) == fast # "tree"

\* Whether parse() runs grammarSpec() a second time after the first run ended as `fast`.
Retries(fast) == fast = "cancel"

\* A run of grammarSpec(): the error handler and the prediction mode it ran under,
\* the index the token stream was at, and how it ended.
FastRun(t) ==
  [errorHandler |-> "BailErrorStrategy", predictionMode |-> "SLL", index |-> 0,
   ended |-> TextDef[t].fast]

GeneralRun(t) ==
  [errorHandler |-> "DefaultErrorStrategy", predictionMode |-> "LL", index |-> 0,
   ended |-> TextDef[t].general]

\* A parse() that ran the general strategy again when its first general run failed.
GrammarSpecRunsUntilTree(s) ==
  LET t == s.tokenStream.text
  IN  IF ~Retries(TextDef[t].fast) THEN <<FastRun(t)>>
      ELSE IF TextDef[t].general = "tree" THEN <<FastRun(t), GeneralRun(t)>>
      ELSE <<FastRun(t), GeneralRun(t), GeneralRun(t)>>

\* The runs of grammarSpec() parse() makes, in order.
GrammarSpecRuns(s) ==
  LET t == s.tokenStream.text
  IN  IF Retries(TextDef[t].fast) THEN <<FastRun(t), GeneralRun(t)>> ELSE <<FastRun(t)>>

\* What the runs leave: the tree, whether parse() raises, how the general run ended
\* (None: it was not made) and what the listeners reported, in order.  The lexer
\* reports while the token stream fetches; a stream that has fetched its tokens
\* replays them.  (The seek(0) that opens parse() fetches the first token before the
\* diagnostics are emptied; the texts have no lexical error ahead of their first
\* token.)
ParseAttempts(s) ==
  LET t     == s.tokenStream.text
      d     == TextDef[t]
      runs_ == GrammarSpecRuns(s)
      last  == runs_[Len(runs_)]
      lexd  == IF s.tokenStream.fetched THEN <<>> ELSE LexerErrors(t)
      fastd == lexd \o (IF d.fast = "cancel" THEN BailReports(t) ELSE <<>>)
  IN  [raised  |-> last.ended # "tree",
       tree    |-> IF last.ended = "tree" THEN t ELSE None,
       general |-> IF Len(runs_) > 1 THEN runs_[2].ended ELSE None,
       reports |-> IF Len(runs_) > 1 /\ last.ended = "tree"
                     THEN fastd \o SyntaxErrors(t) ELSE fastd,
       attempts |-> runs_]

\* info.type from the grammar header of the tree.
GrammarTypeOf(t) == TextDef[t].kind

\* The context after parse(), for a context that has a token stream.
Parse(s) ==
  LET r == ParseReset(s)
      a == ParseAttempts(s)
      f == [r EXCEPT !.tokenStream.fetched = TRUE, !.diagnostics = @ \o a.reports]
  IN  IF a.raised THEN f
      ELSE [f EXCEPT !.tree = a.tree,
                     !.infoType = GrammarTypeOf(a.tree),
                     !.imports = Imports(a.tree),
                     !.symbolTable = DetailsWalk(@, a.tree)]

----------------------------------------------------------------------------
(* The semantic pass *)

\* Whether runSemanticAnalysisIfNeeded() raises: it walks this.tree!.
SemanticRaises(s) == ~s.semanticAnalysisDone /\ s.tree = None

\* A pass that ignored the flag.
SemanticNeededAlways(s) == TRUE

\* Whether runSemanticAnalysisIfNeeded() runs the pass.
SemanticNeeded(s) == ~s.semanticAnalysisDone

\* A pass that began with this.diagnostics.length = 0.
SemanticStartCleared(d) == <<>>

\* The diagnostics list the pass starts from: the list as it is (the statement that
\* would empty it is commented out).
SemanticStart(d) == d

RunSemanticAnalysisIfNeeded(s) ==
  IF ~SemanticNeeded(s) THEN s
  ELSE LET s1 == [s EXCEPT !.semanticAnalysisDone = TRUE,
                           !.diagnostics = SemanticStart(@),
                           !.rrdScripts = [defined |-> TRUE, rules |-> {}]]
       IN  IF s.tree = None THEN s1
           ELSE [s1 EXCEPT !.diagnostics = @ \o SemanticDiagnostics(s.tree),
                           !.symbolTable = CountReferences(@, s.tree),
                           !.rrdScripts = RuleScripts(s.tree)]

\* History: the passes started since the last parse.
CountRun(c) ==
  IF SemanticNeeded(ctx[c]) /\ runs[c] < MaxRuns THEN [runs EXCEPT ![c] = @ + 1] ELSE runs

----------------------------------------------------------------------------
(* intervalSetToStrings *)

\* The intervals a label set holds at most.
MaxIntervals == 2

\* No function has been called.
NoPureCall == [op |-> None]

\* The code points of the labels: EOF, the ends of the ranges the conversion tells
\* apart and their neighbours.
CodePoints == {-1, 0, 31, 32, 33, 126, 127, 128, 160, 161, 255, 256}

\* IntervalSet.intervals: closed intervals in increasing order, none touching the next.
Intervals == {i \in [a : CodePoints, b : CodePoints] : i.a <= i.b}

IntervalSets ==
  {set \in UNION {[1..n -> Intervals] : n \in 0..MaxIntervals} :
     \A i \in 1..(Len(set) - 1) : set[i].b + 1 < set[i + 1].a}

HexDigits == <<"0", "1", "2", "3", "4", "5", "6", "7", "8", "9", "A", "B", "C", "D", "E", "F">>

\* char.toString(16).toUpperCase(): the digits of a number that is not negative.
RECURSIVE ToHex(_)
ToHex(n) == IF n < 16 THEN <<HexDigits[n + 1]>> ELSE ToHex(n \div 16) \o <<HexDigits[(n % 16) + 1]>>

\* The pieces the strings are put together from.
EOFText == [piece |-> "EOF", char |-> -1, digits |-> <<>>]

Quoted(char) == [piece |-> "'c'", char |-> char, digits |-> <<>>]

Escaped(char) == [piece |-> "\\u", char |-> -1, digits |-> ToHex(char)]

Separator == [piece |-> " - ", char |-> -1, digits |-> <<>>]

\* The code points returned as a quoted character: 0x21 to 0x7F and 0xA1 to 0xFF.
Quotes(char) == (char >= 33 /\ char <= 127) \/ (char >= 161 /\ char <= 255)

CharacterRepresentation(char) ==
  IF char < 0 THEN EOFText
  ELSE IF Quotes(char) THEN Quoted(char)
  ELSE Escaped(char)

\* One string for each interval, as the sequence of its pieces.
IntervalSetToStrings(set) ==
  [i \in 1..Len(set) |->
     IF set[i].a # set[i].b
       THEN <<CharacterRepresentation(set[i].a), Separator, CharacterRepresentation(set[i].b)>>
       ELSE <<CharacterRepresentation(set[i].a)>>]

----------------------------------------------------------------------------
(* parseTreeFromPosition *)

\* The rows and the columns asked for.
MaxRow == 3

MaxColumn == 8

\* The tokens of the text "abcd ef" / " g": each on one line.
Token(line, charPositionInLine, startIndex, stopIndex) ==
  [line |-> line, charPositionInLine |-> charPositionInLine,
   startIndex |-> startIndex, stopIndex |-> stopIndex]

\* context.start or context.stop of a context that has none.
NoToken == Token(-1, -1, -1, -1)

TokenAB == Token(1, 0, 0, 1)

TokenCD == Token(1, 2, 2, 3)

TokenEF == Token(1, 5, 5, 6)

TokenG == Token(2, 1, 9, 9)

\* The nodes of a tree: a TerminalNode with its symbol, or a ParserRuleContext with
\* its start and stop tokens and its children (their numbers in the tree).
Terminal(symbol) ==
  [terminal |-> TRUE, symbol |-> symbol, start |-> NoToken, stop |-> NoToken, children |-> <<>>]

Context(start, stop, children) ==
  [terminal |-> FALSE, symbol |-> NoToken, start |-> start, stop |-> stop, children |-> children]

\* Parse trees, their nodes numbered in the order a walk enters them; node 1 is the
\* root.  A rule that matched nothing starts at the next token and stops at the
\* token before it (it has no stop when there is none).
ParseTrees ==
  [ flat   |-> << Context(TokenAB, TokenG, <<2, 3, 4, 5>>),
                  Terminal(TokenAB), Terminal(TokenCD), Terminal(TokenEF), Terminal(TokenG) >>,
    nested |-> << Context(TokenAB, TokenG, <<2, 4, 8>>),
                  Context(TokenAB, TokenAB, <<3>>), Terminal(TokenAB),
                  Context(TokenCD, TokenEF, <<5, 6>>), Terminal(TokenCD),
                  Context(TokenEF, TokenEF, <<7>>), Terminal(TokenEF),
                  Terminal(TokenG) >>,
    empty  |-> << Context(TokenAB, TokenG, <<2, 4, 5, 7>>),
                  Context(TokenAB, TokenAB, <<3>>), Terminal(TokenAB),
                  Context(TokenCD, TokenAB, <<>>),
                  Context(TokenCD, TokenCD, <<6>>), Terminal(TokenCD),
                  Context(TokenEF, TokenG, <<8, 9>>), Terminal(TokenEF), Terminal(TokenG) >>,
    part   |-> << Context(TokenCD, TokenEF, <<2, 3, 4>>),
                  Context(TokenCD, NoToken, <<>>),
                  Terminal(TokenCD), Terminal(TokenEF) >>,
    none   |-> << Context(NoToken, NoToken, <<>>) >> ]

\* No node: the result undefined.
Undefined == 0

\* A token end that was the column of the last character.
TokenStopAtLastCharacter(token) ==
  token.charPositionInLine + (token.stopIndex - token.startIndex)

\* tokenStop: the column after the last character of the token.
TokenStop(token) == token.charPositionInLine + (token.stopIndex - token.startIndex + 1)

\* The function on node `root` of tree `t`; the loop over the children from child i
\* on returns the first result that is a node.
RECURSIVE ParseTreeFromPosition(_, _, _, _)
RECURSIVE FirstResult(_, _, _, _, _)
ParseTreeFromPosition(t, root, column, row) ==
  LET node == ParseTrees[t][root]
  IN  IF node.terminal
        THEN IF node.symbol.line # row THEN Undefined
             ELSE IF node.symbol.charPositionInLine <= column /\ TokenStop(node.symbol) >= column
               THEN root
             ELSE Undefined
      ELSE IF node.start = NoToken \/ node.stop = NoToken THEN Undefined
      ELSE IF \/ node.start.line > row
              \/ node.start.line = row /\ column < node.start.charPositionInLine
        THEN Undefined
      ELSE IF \/ node.stop.line < row
              \/ node.stop.line = row /\ TokenStop(node.stop) < column
        THEN Undefined
      ELSE LET result == FirstResult(t, node.children, 1, column, row)
           IN  IF result # Undefined THEN result ELSE root

FirstResult(t, children, i, column, row) ==
  IF i > Len(children) THEN Undefined
  ELSE LET result == ParseTreeFromPosition(t, children[i], column, row)
       IN  IF result # Undefined THEN result
           ELSE FirstResult(t, children, i + 1, column, row)

----------------------------------------------------------------------------
(* provideRenameEdits *)

\* The occurrences the backend returns at most.
MaxOccurrences == 2

\* The names of the symbols renamed and info.name.length of each.
NameLength == [r |-> 1, expr |-> 4]

\* symbolInfoAtPosition: undefined, or the info of the symbol at the position.
NoInfo == [found |-> FALSE, name |-> "r"]

Infos == {NoInfo} \cup {[found |-> TRUE, name |-> n] : n \in DOMAIN NameLength}

\* A lexical range as SourceContext.definitionForContext fills it: rows from 1,
\* the end on the row of the last token of the context.
LexicalRange(startRow, startColumn, endRow, endColumn) ==
  [start |-> [column |-> startColumn, row |-> startRow],
   end   |-> [column |-> endColumn, row |-> endRow]]

\* symbol.definition: undefined, or a definition with its range.
NoDefinition == [defined |-> FALSE, range |-> LexicalRange(0, 0, 0, 0)]

SymbolDefinitions ==
  {[defined |-> TRUE, range |-> LexicalRange(row, column, row + lines, 5)] :
     row \in {1, 2}, column \in {0, 4}, lines \in {0, 1}}

\* getSymbolOccurences: the occurrences of the symbol in the grammar and its imports.
Occurences ==
  UNION {[1..n -> [source : {"base.g4", "imported.g4"},
                   definition : {NoDefinition} \cup SymbolDefinitions]] : n \in 0..MaxOccurrences}

\* new Range(startLine, startCharacter, endLine, endCharacter)
Range4(startLine, startCharacter, endLine, endCharacter) ==
  [start |-> [line |-> startLine, character |-> startCharacter],
   end   |-> [line |-> endLine, character |-> endCharacter]]

\* A replaced range that ended on the line it starts on.
RenameRangeOnStartLine(definition, name) ==
  Range4(definition.range.start.row - 1, definition.range.start.column,
         definition.range.start.row - 1, definition.range.start.column + NameLength[name])

\* The range replaced for an occurrence with this definition.
RenameRange(definition, name) ==
  Range4(definition.range.start.row - 1, definition.range.start.column,
         definition.range.end.row - 1, definition.range.start.column + NameLength[name])

\* The loop over the occurrences from the i-th on: result.replace(uri, range, newName).
RECURSIVE ReplaceFrom(_, _, _, _, _)
ReplaceFrom(occurences, i, info, newName, result) ==
  IF i > Len(occurences) THEN result
  ELSE LET symbol == occurences[i]
       IN  ReplaceFrom(occurences, i + 1, info, newName,
             IF symbol.definition.defined
               THEN Append(result, [uri |-> symbol.source,
                                    range |-> RenameRange(symbol.definition, info.name),
                                    newText |-> newName])
               ELSE result)

\* provideRenameEdits: undefined, or the WorkspaceEdit as the list of its edits.
ProvideRenameEdits(info, occurences, newName) ==
  IF ~info.found THEN [defined |-> FALSE, edits |-> <<>>]
  ELSE [defined |-> TRUE, edits |-> ReplaceFrom(occurences, 1, info, newName, <<>>)]

----------------------------------------------------------------------------
(* hasErrors *)

\* A getter that answered for any entry, whatever its type.
HasErrorsOfAnyType(s) == Len(s.diagnostics) > 0

\* The loop over the diagnostics from entry i on: the first Error entry ends it.
RECURSIVE HasErrorsFrom(_, _)
HasErrorsFrom(d, i) ==
  IF i > Len(d) THEN FALSE
  ELSE IF d[i].type = "Error" THEN TRUE
  ELSE HasErrorsFrom(d, i + 1)

HasErrors(s) == HasErrorsFrom(s.diagnostics, 1)

----------------------------------------------------------------------------
(* setupInterpreters *)

\* The names of the grammar files and of the data files, each with the parts the
\* code takes it apart into or joins it from.  (The directory is the same for both
\* data files and is left out.)
Parts ==
  ("" :> <<>>) @@
  ("base.g4" :> <<"base", ".g4">>) @@
  ("base.g" :> <<"base", ".g">>) @@
  ("baseParser.g4" :> <<"base", "Parser", ".g4">>) @@
  ("base.interp" :> <<"base", ".interp">>) @@
  ("baseLexer.interp" :> <<"base", "Lexer", ".interp">>) @@
  ("baseParser.interp" :> <<"base", "Parser", ".interp">>) @@
  ("baseParserLexer.interp" :> <<"base", "Parser", "Lexer", ".interp">>)

\* The name made of the given parts.
Named(parts) == CHOOSE n \in DOMAIN Parts : Parts[n] = parts

EndsWith(parts, suffix) == Len(parts) > 0 /\ parts[Len(parts)] = suffix

WithoutSuffix(parts) == SubSeq(parts, 1, Len(parts) - 1)

\* path.basename(fileName, ext): the extension is taken off when the name ends with it.
BaseName(fileName) ==
  LET p == Parts[fileName]
  IN  IF EndsWith(p, ".g4") THEN WithoutSuffix(p)
      ELSE IF EndsWith(p, ".g") THEN WithoutSuffix(p)
      ELSE p

\* The grammar files a context can be constructed for.
FileNames == {"base.g4", "base.g", "baseParser.g4"}

\* The data files of a context named base.g4.
InterpFiles == {"base.interp", "baseLexer.interp"}

\* The data files of any of the contexts.
AllInterpFiles == {n \in DOMAIN Parts : EndsWith(Parts[n], ".interp")}

\* A combined grammar whose lexer file kept the whole base name.
LexerFileKeepsSuffix(type, baseName) ==
  CASE type = "Combined" -> Named(baseName \o <<"Lexer", ".interp">>)
    [] type = "Lexer"    -> Named(baseName \o <<".interp">>)
    [] OTHER             -> ""

LexerFile(type, baseName) ==
  CASE type = "Combined" ->
         Named((IF EndsWith(baseName, "Parser") THEN WithoutSuffix(baseName) ELSE baseName)
               \o <<"Lexer", ".interp">>)
    [] type = "Lexer"    -> Named(baseName \o <<".interp">>)
    [] OTHER             -> ""

\* A parser file looked for whatever the grammar kind.
ParserFileOfAnyKind(type, baseName) == Named(baseName \o <<".interp">>)

ParserFile(type, baseName) ==
  CASE type = "Combined" -> Named(baseName \o <<".interp">>)
    [] type = "Parser"   -> Named(baseName \o <<".interp">>)
    [] OTHER             -> ""

\* InterpreterDataReader.parseFile: the rule names of a data file.
RuleNames(type, file, baseName) ==
  IF file = LexerFile(type, baseName) THEN {"ID"} ELSE {"r", "s"}

\* disk: the data files that exist.
SetupInterpreters(s, disk) ==
  LET baseName   == BaseName(s.fileName)
      lexerFile  == LexerFile(s.infoType, baseName)
      parserFile == ParserFile(s.infoType, baseName)
  IN  [s EXCEPT !.grammarLexerData     = IF lexerFile \in disk THEN lexerFile ELSE None,
                !.grammarLexerRuleMap  = IF lexerFile \in disk
                                           THEN RuleNames(s.infoType, lexerFile, baseName) ELSE {},
                !.grammarParserData    = IF parserFile \in disk THEN parserFile ELSE None,
                !.grammarParserRuleMap = IF parserFile \in disk
                                           THEN RuleNames(s.infoType, parserFile, baseName) ELSE {}]

----------------------------------------------------------------------------
(* The reference mesh *)

\* SymbolTable.addDependencies / removeDependency: the dependencies are a set.
AddDependencies(table, dep) == [table EXCEPT !.dependencies = @ \cup {dep}]

RemoveTableDependency(table, dep) == [table EXCEPT !.dependencies = @ \ {dep}]

\* An index test that missed the first entry (> 0 for > -1).
AlreadyReferencedOffByOne(current, this) == IndexOf(ctx[current].references, this) > 1

\* current.references.indexOf(this) > -1
AlreadyReferenced(current, this) == IndexOf(ctx[current].references, this) > 0

\* pipeline.push(...current.references), after the shift()
PipelineAfter(current) == Tail(pipeline) \o ctx[current].references

\* context.references.push(this); this.symbolTable.addDependencies(context.symbolTable)
Link(this, context) ==
  LET pushed == [ctx EXCEPT ![context].references = Append(@, this)]
  IN  [pushed EXCEPT ![this].symbolTable = AddDependencies(@, context)]

\* A removal that leaves the symbol table's dependency in place.
UnlinkListOnly(this, context) ==
  LET index == IndexOf(ctx[context].references, this)
  IN  IF index > 0
        THEN [ctx EXCEPT ![context].references = Splice(@, index)]
        ELSE ctx

\* The body of removeDependency.
Unlink(this, context) ==
  LET index   == IndexOf(ctx[context].references, this)
      removed == IF index > 0
                   THEN [ctx EXCEPT ![context].references = Splice(@, index)]
                   ELSE ctx
  IN  [removed EXCEPT ![this].symbolTable = RemoveTableDependency(@, context)]

\* symbolTable.getReferenceCount(symbol)
LocalReferenceCount(s, n) == s.symbolTable.refs[n]

\* A call of getReferenceCount as it starts to loop over this.references.
Frame(s, c, n) == [ctx |-> c, idx |-> 1, result |-> LocalReferenceCount(s, n)]

\* result += reference.getReferenceCount(symbol), and on to the next reference
Accumulate(frame, returned) ==
  [frame EXCEPT !.result = @ + returned, !.idx = @ + 1]

----------------------------------------------------------------------------
(* The automata of the interpreter data (getATNGraph) *)

\* Transition.serializationType, target and (for a rule transition) followState.
Eps(target) == [serializationType |-> "EPSILON", target |-> target, followState |-> -1]

Atom(target) == [serializationType |-> "ATOM", target |-> target, followState |-> -1]

Rule(target, followState) ==
  [serializationType |-> "RULE", target |-> target, followState |-> followState]

State(stateType, transitions) == [stateType |-> stateType, transitions |-> transitions]

(***************************************************************************)
(* Automata as the ANTLR tool numbers them: a parser automaton starts with *)
(* the start and stop state of each rule (rule i: 2i and 2i+1), a lexer    *)
(* automaton with the tokens start state 0 and then the start and stop     *)
(* state of each rule (rule i: 2i+1 and 2i+2).  The stop state of a rule   *)
(* has an epsilon transition to the follow state of each of its calls.     *)
(* states[n + 1] is the state with stateNumber n.                          *)
(*   calls    a : 'z' ;  s : a 'x' | a 'y' ;                               *)
(*   product  a : b 'x' b ;  b : 'z' ;                                     *)
(*   leftrec  e : ID ('+' e)* ;      (e : e '+' e | ID, rewritten)         *)
(*   lexer    fragment D : '0' ;  INT : D 'x' ;                            *)
(***************************************************************************)
ATNs ==
  [ calls |->
      [ ruleNames |-> <<"a", "s">>,
        ruleToStartState |-> <<0, 2>>,
        ruleToStopState  |-> <<1, 3>>,
        states |-> <<
          State("RULE_START", <<Eps(4)>>),             \* 0
          State("RULE_STOP", <<Eps(7), Eps(11)>>),     \* 1
          State("RULE_START", <<Eps(14)>>),            \* 2
          State("RULE_STOP", <<>>),                    \* 3
          State("BASIC", <<Atom(5)>>),                 \* 4
          State("BASIC", <<Eps(1)>>),                  \* 5
          State("BASIC", <<Rule(0, 7)>>),              \* 6
          State("BASIC", <<Eps(8)>>),                  \* 7
          State("BASIC", <<Atom(9)>>),                 \* 8
          State("BASIC", <<Eps(15)>>),                 \* 9
          State("BASIC", <<Rule(0, 11)>>),             \* 10
          State("BASIC", <<Eps(12)>>),                 \* 11
          State("BASIC", <<Atom(13)>>),                \* 12
          State("BASIC", <<Eps(15)>>),                 \* 13
          State("BLOCK_START", <<Eps(6), Eps(10)>>),   \* 14
          State("BLOCK_END", <<Eps(3)>>) >> ],         \* 15
    product |->
      [ ruleNames |-> <<"a", "b">>,
        ruleToStartState |-> <<0, 2>>,
        ruleToStopState  |-> <<1, 3>>,
        states |-> <<
          State("RULE_START", <<Eps(4)>>),             \* 0
          State("RULE_STOP", <<>>),                    \* 1
          State("RULE_START", <<Eps(10)>>),            \* 2
          State("RULE_STOP", <<Eps(5), Eps(9)>>),      \* 3
          State("BASIC", <<Rule(2, 5)>>),              \* 4
          State("BASIC", <<Eps(6)>>),                  \* 5
          State("BASIC", <<Atom(7)>>),                 \* 6
          State("BASIC", <<Eps(8)>>),                  \* 7
          State("BASIC", <<Rule(2, 9)>>),              \* 8
          State("BASIC", <<Eps(1)>>),                  \* 9
          State("BASIC", <<Atom(11)>>),                \* 10
          State("BASIC", <<Eps(3)>>) >> ],             \* 11
    leftrec |->
      [ ruleNames |-> <<"e">>,
        ruleToStartState |-> <<0>>,
        ruleToStopState  |-> <<1>>,
        states |-> <<
          State("RULE_START", <<Eps(2)>>),             \* 0
          State("RULE_STOP", <<Eps(6)>>),              \* 1
          State("BASIC", <<Atom(3)>>),                 \* 2
          State("BASIC", <<Eps(7)>>),                  \* 3
          State("BASIC", <<Atom(5)>>),                 \* 4
          State("BASIC", <<Rule(0, 6)>>),              \* 5
          State("BASIC", <<Eps(7)>>),                  \* 6
          State("STAR_LOOP_ENTRY", <<Eps(4), Eps(8)>>),\* 7
          State("LOOP_END", <<Eps(1)>>) >> ],          \* 8
    lexer |->
      [ ruleNames |-> <<"D", "INT">>,
        ruleToStartState |-> <<1, 3>>,
        ruleToStopState  |-> <<2, 4>>,
        states |-> <<
          State("TOKEN_START", <<Eps(3)>>),            \* 0
          State("RULE_START", <<Eps(5)>>),             \* 1
          State("RULE_STOP", <<Eps(8)>>),              \* 2
          State("RULE_START", <<Eps(7)>>),             \* 3
          State("RULE_STOP", <<>>),                    \* 4
          State("BASIC", <<Atom(6)>>),                 \* 5
          State("BASIC", <<Eps(2)>>),                  \* 6
          State("BASIC", <<Rule(1, 8)>>),              \* 7
          State("BASIC", <<Eps(9)>>),                  \* 8
          State("BASIC", <<Atom(10)>>),                \* 9
          State("BASIC", <<Eps(4)>>) >> ] ]            \* 10

\* The rule names asked for: those of the automata and one that no automaton has.
RuleArgs == {"a", "s", "b", "e", "D", "INT", "q"}

\* atn.states[stateNumber]
StateOf(a, n) == ATNs[a].states[n + 1]

\* state.getTransitions()
Transitions(a, n) == StateOf(a, n).transitions

\* ruleIndexMap.has(rule) / ruleIndexMap.get(rule): the index of rule in ruleNames
HasRule(a, rule) == \E i \in 1..Len(ATNs[a].ruleNames) : ATNs[a].ruleNames[i] = rule

RuleIndex(a, rule) == CHOOSE i \in 1..Len(ATNs[a].ruleNames) : ATNs[a].ruleNames[i] = rule

\* ruleNames[state.ruleIndex] of a rule start state
RuleNameOf(a, n) ==
  ATNs[a].ruleNames[CHOOSE i \in 1..Len(ATNs[a].ruleToStartState) :
                      ATNs[a].ruleToStartState[i] = n]

\* transition.target.stateType === ATNStateType.RULE_START
TransitsToRule(a, transition) == StateOf(a, transition.target).stateType = "RULE_START"

\* ATNStateType, the numbers of the state types; 13 is the type getATNGraph gives
\* the node of a called rule, one beyond the highest of them.
ATNStateType ==
  [ BASIC |-> 1, RULE_START |-> 2, BLOCK_START |-> 3, TOKEN_START |-> 6, RULE_STOP |-> 7,
    BLOCK_END |-> 8, STAR_LOOP_ENTRY |-> 10, LOOP_END |-> 12 ]

RuleNodeType == 13

\* History: what a node or a link end was made for, state n or the call in state n.
ForState(n) == [call |-> FALSE, state |-> n]

ForCall(n) == [call |-> TRUE, state |-> n]

\* No call of getATNGraph has been made.
NoGraph ==
  [ pc |-> "idle", atn |-> None, rule |-> None, defined |-> FALSE,
    stopState |-> -1, seenStates |-> {}, pipeline |-> <<>>,
    nodes |-> <<>>, links |-> <<>>, stateToIndex |-> [id \in {} |-> 0],
    currentRuleIndex |-> -1, state |-> -1, sourceIndex |-> -1, i |-> 0,
    nodeFor |-> <<>>, linkFrom |-> <<>>, linkTo |-> <<>>, shifted |-> <<>>, pushed |-> <<>> ]

\* The locals of getATNGraph before the loop, for the rule with index ruleIndex.
StartGraph(a, rule) ==
  LET startState == ATNs[a].ruleToStartState[RuleIndex(a, rule)]
  IN  [NoGraph EXCEPT !.pc = "while", !.atn = a, !.rule = rule, !.defined = TRUE,
                      !.stopState = ATNs[a].ruleToStopState[RuleIndex(a, rule)],
                      !.seenStates = {startState}, !.pipeline = <<startState>>,
                      !.pushed = <<startState>>]

\* An ensureATNNode that gave every rule node the id -1.
EnsureATNNodeOneRuleId(g, id, state) ==
  IF id \in DOMAIN g.stateToIndex
    THEN [graph |-> g, index |-> g.stateToIndex[id]]
    ELSE LET transitions == Transitions(g.atn, state)
             index  == Len(g.nodes)
             node   == [id |-> id, name |-> ToString(id),
                        type |-> ATNStateType[StateOf(g.atn, state).stateType]]
             added  == [g EXCEPT !.stateToIndex = (id :> index) @@ @,
                                 !.nodes = Append(@, node),
                                 !.nodeFor = Append(@, ForState(state))]
             marker == state * transitions[1].target
             fake   == [id |-> -1,
                        name |-> RuleNameOf(g.atn, transitions[1].target),
                        type |-> RuleNodeType]
         IN  [ graph |->
                 IF Len(transitions) = 1 /\ TransitsToRule(g.atn, transitions[1])
                   THEN [added EXCEPT !.stateToIndex = (marker :> Len(added.nodes)) @@ @,
                                      !.nodes = Append(@, fake),
                                      !.nodeFor = Append(@, ForCall(state))]
                   ELSE added,
               index |-> index ]

\* ensureATNNode(id, state): the graph after the call and the index it returns.
EnsureATNNode(g, id, state) ==
  IF id \in DOMAIN g.stateToIndex
    THEN [graph |-> g, index |-> g.stateToIndex[id]]
    ELSE LET transitions == Transitions(g.atn, state)
             index  == Len(g.nodes)
             node   == [id |-> id, name |-> ToString(id),
                        type |-> ATNStateType[StateOf(g.atn, state).stateType]]
             added  == [g EXCEPT !.stateToIndex = (id :> index) @@ @,
                                 !.nodes = Append(@, node),
                                 !.nodeFor = Append(@, ForState(state))]
             marker == state * transitions[1].target
             fake   == [id |-> g.currentRuleIndex,
                        name |-> RuleNameOf(g.atn, transitions[1].target),
                        type |-> RuleNodeType]
         IN  [ graph |->
                 IF Len(transitions) = 1 /\ TransitsToRule(g.atn, transitions[1])
                   THEN [added EXCEPT !.stateToIndex = (marker :> Len(added.nodes)) @@ @,
                                      !.nodes = Append(@, fake),
                                      !.currentRuleIndex = @ - 1,
                                      !.nodeFor = Append(@, ForCall(state))]
                   ELSE added,
               index |-> index ]

\* A traversal that takes the transitions of every state.
LeavesStopStateNever(g) == FALSE

\* if (state === stopState) continue
LeavesStopState(g) == g.state = g.stopState

\* A traversal that takes every next state for new.
SeenNever(g, nextState) == FALSE

\* seenStates.has(nextState)
Seen(g, nextState) == nextState \in g.seenStates

\* The labels of a link (the display names of a label set are one name here).
Labels(transition) ==
  IF transition.serializationType \in {"EPSILON", "RULE"} THEN <<"epsilon">> ELSE <<"symbol">>

\* link: the link for a transition; nodeLink: the link back from a called rule.
ATNLink(source, target, type, labels) ==
  [source |-> source, target |-> target, type |-> type, labels |-> labels]

AddLink(g, link, from, to) ==
  [g EXCEPT !.links = Append(@, link), !.linkFrom = Append(@, from), !.linkTo = Append(@, to)]

\* pipeline.shift() and the node of the state shifted.
ShiftState(g) ==
  LET state  == Head(g.pipeline)
      ensure == EnsureATNNode([g EXCEPT !.pipeline = Tail(@)], state, state)
  IN  [ensure.graph EXCEPT !.pc = "for", !.state = state, !.sourceIndex = ensure.index,
                           !.i = 1, !.shifted = Append(@, state)]

\* One iteration of the loop over the transitions of the state shifted.
FollowTransition(g) ==
  LET state          == g.state
      transition     == Transitions(g.atn, state)[g.i]
      transitsToRule == TransitsToRule(g.atn, transition)
      marker         == transition.target * (IF transitsToRule THEN state ELSE 1)
      target         == EnsureATNNode(g, marker, transition.target)
      linked         == AddLink(target.graph,
                                ATNLink(g.sourceIndex, target.index,
                                      transition.serializationType, Labels(transition)),
                                ForState(state),
                                IF transitsToRule THEN ForCall(state)
                                                  ELSE ForState(transition.target))
      nextState      == IF transitsToRule THEN transition.followState ELSE transition.target
      return         == EnsureATNNode(linked, nextState, nextState)
      returned       == IF transitsToRule
                          THEN AddLink(return.graph,
                                       ATNLink(target.index, return.index, "RULE", <<"epsilon">>),
                                       ForCall(state), ForState(nextState))
                          ELSE linked
  IN  IF LeavesStopState(g)
        THEN [g EXCEPT !.i = @ + 1]
        ELSE IF Seen(returned, nextState)
               THEN [returned EXCEPT !.i = @ + 1]
               ELSE [returned EXCEPT !.i = @ + 1,
                                     !.seenStates = @ \cup {nextState},
                                     !.pipeline = Append(@, nextState),
                                     !.pushed = Append(@, nextState)]

----------------------------------------------------------------------------
(* Sentence generation and test input *)

\* The sentences asked for at most in one request.
MaxCount == 2

\* The rule names asked for: none, a lexer rule of the data, a token that is no
\* lexer rule, a parser rule of the data and a name that is no rule.
SentenceRules == {"", "ID", "NUM", "r", "q"}

\* rule[0] === rule[0].toUpperCase()
IsLexerRule(rule) == rule \in {"ID", "NUM"}

\* What a request gave its caller: the calls of the callback in order, the token
\* names and the error text of lexTestInput, the error list of parseTestInput;
\* with them the dependencies passed in and, when the generator was started, the
\* count option, the sentences it was to make and whether it threw.
NoOutput ==
  [ callbacks |-> <<>>, dependencies |-> <<>>, count |-> 0, options |-> <<>>,
    failed |-> FALSE, tokens |-> <<>>, error |-> "", errors |-> <<>> ]

\* callback(sentence, index)
Callback(sentence, index) == [sentence |-> sentence, index |-> index]

\* get isInterpreterDataLoaded
IsInterpreterDataLoaded(s) == s.grammarLexerData # None \/ s.grammarParserData # None

\* lexerData after the switch on info.type: for a parser grammar that of the first
\* lexer grammar among the dependencies (all: the contexts by name).
SentenceLexerData(all, s, dependencies) ==
  LET lexers == SelectSeq(dependencies, LAMBDA d : all[d].infoType = "Lexer")
  IN  CASE s.infoType \in {"Combined", "Lexer"} -> s.grammarLexerData
        [] s.infoType = "Parser" ->
             IF lexers = <<>> THEN None ELSE all[lexers[1]].grammarLexerData
        [] OTHER -> None

\* parserData after the switch on info.type
SentenceParserData(s) ==
  IF s.infoType \in {"Combined", "Parser"} THEN s.grammarParserData ELSE None

\* A generateSentence that looks at the rule name before it looks for data.
PlaceholderRuleFirst(all, s, dependencies, rule) ==
  IF rule = "" THEN "[No rule specified]" ELSE "[No grammar data available]"

\* The placeholder generateSentence ends with, None when it goes on to generate.
Placeholder(all, s, dependencies, rule) ==
  IF ~IsInterpreterDataLoaded(s) THEN "[No grammar data available]"
  ELSE IF rule = "" THEN "[No rule specified]"
  ELSE IF SentenceLexerData(all, s, dependencies) = None THEN "[No lexer data available]"
  ELSE IF ~IsLexerRule(rule) /\ SentenceParserData(s) = None
         THEN "[No parser data available]"
  ELSE IF IsLexerRule(rule) /\ rule \notin s.grammarLexerRuleMap
         THEN "[Virtual or undefined token]"
  ELSE IF ~IsLexerRule(rule) /\ rule \notin s.grammarParserRuleMap
         THEN "[Undefined rule]"
  ELSE None

\* options.count as the caller gives it: a number, or nothing (the empty sequence).
CountOptions == {<<>>} \cup {<<n>> : n \in (-1)..MaxCount}

\* value ?? default
Coalesce(value, default) == IF value = <<>> THEN default ELSE value[1]

\* A count taken as it was given.
CountAsGiven(n) == Coalesce(n, 1)

\* Math.max(options.count ?? 1, 1)
Count(n) == IF Coalesce(n, 1) < 1 THEN 1 ELSE Coalesce(n, 1)

\* The try block: the sentences before failAt are generated and handed over with
\* their index; if failAt is below count, the generator (or for failAt = 0 its
\* constructor) throws there and the catch clause hands the exception over.
Generate(count, failAt) ==
  LET made == [i \in 1..(IF failAt < count THEN failAt ELSE count) |->
                 Callback("sentence", i - 1)]
  IN  IF failAt < count THEN Append(made, Callback("exception", 0)) ELSE made

GenerateSentence(all, s, dependencies, rule, n, failAt) ==
  LET placeholder == Placeholder(all, s, dependencies, rule)
  IN  IF placeholder # None
        THEN [NoOutput EXCEPT !.callbacks = <<Callback(placeholder, 0)>>,
                              !.dependencies = dependencies]
        ELSE [NoOutput EXCEPT !.callbacks = Generate(Count(n), failAt),
                              !.dependencies = dependencies,
                              !.options = n,
                              !.failed = failAt < Count(n),
                              !.count = Count(n)]

\* lexTestInput: with lexer data the token names (the end of input is one) and the
\* text of the errors the listener was told; without, the initial values of both.
LexTestInput(s, lexerErrors) ==
  IF s.grammarLexerData # None
    THEN [NoOutput EXCEPT !.tokens = <<"ID", "EOF">>,
                          !.error = IF lexerErrors THEN "error" ELSE ""]
    ELSE NoOutput

\* parseTestInput: the errors the listeners were told, or the one on missing data.
ParseTestInput(s, inputErrors) ==
  IF s.grammarLexerData = None \/ s.grammarParserData = None
    THEN [NoOutput EXCEPT !.errors = <<"No interpreter data available">>]
    ELSE [NoOutput EXCEPT !.errors = IF inputErrors THEN <<"error">> ELSE <<>>]

----------------------------------------------------------------------------
(* Generation runs *)

\* The generation runs followed in one behaviour.
MaxJobs == 1

\* The chunks of error output followed per run.
MaxChunks == 1

\* What the process writes to stderr in one chunk: the line of the Java runtime on
\* the options it picked up (with nothing after it), or other text.
Chunks == {"Picked up _JAVA_OPTIONS:", "text"}

\* The stderr listener: the text of a chunk that goes into the buffer ("": none).
BufferedText(chunk) == IF chunk = "Picked up _JAVA_OPTIONS:" THEN "" ELSE chunk

\* buffer += "\n" + text: the buffer as the list of the texts added.
Buffered(buffer, chunk) ==
  IF BufferedText(chunk) = "" THEN buffer ELSE Append(buffer, BufferedText(chunk))

\* ErrorParser.convertErrorsToDiagnostics(buffer): whether the buffer could be
\* turned into diagnostics.  It is given the contexts only to add diagnostics.
ConversionOutcomes == BOOLEAN

\* dependencies.add(this) and the file names of the dependencies, in their order.
FileList(this, dependencies) ==
  IF this \in Range(dependencies) THEN dependencies ELSE Append(dependencies, this)

\* A generation run right after spawn: the process runs, the promise is pending.
\* stderr is history: the chunks the process has written; so is started: the text
\* the context had parsed and its grammar kind when generate() was called.
Spawn(this, dependencies) ==
  [ ctx |-> this, process |-> "running", promise |-> "pending",
    fileList |-> FileList(this, dependencies), stderr |-> <<>>, buffer |-> <<>>,
    value |-> <<>>, disk |-> {},
    started |-> [parsed |-> ctx[this].parser, type |-> ctx[this].infoType] ]

\* A close handler that loads the interpreter data whatever the outcome.
OnRejectReloads(s, disk) == SetupInterpreters(s, disk)

\* The context after the close handler has rejected: it has not been touched.
OnReject(s, disk) == s

\* The context after the close handler: converted says whether ErrorParser could
\* turn the buffer into diagnostics, disk are the data files that exist by then.
OnClose(s, converted, disk) ==
  IF converted THEN SetupInterpreters(s, disk) ELSE OnReject(s, disk)

\* The run after the close handler: resolve(fileList) or reject(buffer).  disk is
\* history: the data files the handler looked for (it looks for none to reject).
Settle(job, converted, disk) ==
  [job EXCEPT !.process = "closed",
              !.promise = IF converted THEN "resolved" ELSE "rejected",
              !.value = IF converted THEN job.fileList ELSE job.buffer,
              !.disk = IF converted THEN disk ELSE {}]

----------------------------------------------------------------------------
(* The process-wide table of built-in symbols *)

\* The built-ins, in the order the constructor defines them.
BuiltIns == <<"DEFAULT_TOKEN_CHANNEL", "HIDDEN", "EOF", "DEFAULT_MODE">>

\* globalSymbols.resolve(name)
Resolve(table, name) == \E i \in 1..Len(table) : table[i] = name

\* A constructor that defines the built-ins whatever the table holds.
DefinesBuiltInsAlways(table) == TRUE

\* if (!SourceContext.globalSymbols.resolve("EOF"))
DefinesBuiltIns(table) == ~Resolve(table, "EOF")

\* The four addNewSymbolOfType calls of the constructor.
Construct(table) == IF DefinesBuiltIns(table) THEN table \o BuiltIns ELSE table

\* rule[0]: the first character of a rule name, undefined for the empty string.
FirstCharacter ==
  ("" :> "undefined") @@ ("ID" :> "I") @@ ("NUM" :> "N") @@ ("r" :> "r") @@ ("q" :> "q")

\* String.toUpperCase on a character.
ToUpperCase == ("I" :> "I") @@ ("N" :> "N") @@ ("r" :> "R") @@ ("q" :> "Q")

\* getATNGraph up to the look-up of the rule: whether it raises, and whether it goes
\* on to build a graph.  toUpperCase is called on rule[0] before any test is made;
\* on undefined the call raises a TypeError.
GetATNGraphStart(s, rule) ==
  LET first == FirstCharacter[rule]
  IN  IF first = "undefined" THEN [raised |-> TRUE, graph |-> FALSE]
      ELSE LET isLexerRule  == first = ToUpperCase[first]
               ruleIndexMap == IF isLexerRule THEN s.grammarLexerRuleMap
                               ELSE s.grammarParserRuleMap
           IN  IF \/ isLexerRule /\ s.grammarLexerData = None
                  \/ ~isLexerRule /\ s.grammarParserData = None
                 THEN [raised |-> FALSE, graph |-> FALSE]
               ELSE IF rule \notin ruleIndexMap THEN [raised |-> FALSE, graph |-> FALSE]
               ELSE [raised |-> FALSE, graph |-> TRUE]

\* symbolTable.resolve(name, false): the symbols of the table, then those of the
\* tables it depends on (seen: the tables the search has entered).
RECURSIVE ResolveThrough(_, _, _, _, _)
ResolveThrough(all, global, c, name, seen) ==
  \/ name \in all[c].symbolTable.symbols
  \/ \E d \in all[c].symbolTable.dependencies \ seen :
        IF d = Global THEN Resolve(global, name)
        ELSE ResolveThrough(all, global, d, name, seen \cup {d})

ResolveSymbol(all, global, c, name) == ResolveThrough(all, global, c, name, {c})

\* The names a caller resolves: the built-ins, a rule and a name no table defines.
SymbolNames == Range(BuiltIns) \cup {"r", "undefined"}

----------------------------------------------------------------------------
(* Actions *)

Idle == pc = "idle"

\* new SourceContext(fileName): a fresh object takes the place of context c.
construct(c) ==
  /\ Idle
  /\ constructed' = constructed \cup {c}
  /\ globalSymbols' = Construct(globalSymbols)
  /\ ctx' = [ctx EXCEPT ![c] = NewContext]
  /\ runs' = [runs EXCEPT ![c] = 0]
  /\ hist' = Call("construct", c, None, FALSE, None, None)
  /\ UNCHANGED <<callVars, pureCall, atnGraph, output, jobs>>

setText(c, t) ==
  /\ Idle
  /\ ctx' = [ctx EXCEPT ![c] = SetText(@, t)]
  /\ hist' = Call("setText", c, None, FALSE, None, None)
  /\ UNCHANGED <<callVars, runs>>
  /\ UNCHANGED extVars

\* parse() on a context that has no token stream yet raises at its first statement.
parse(c) ==
  /\ Idle
  /\ IF ctx[c].tokenStream.text = None
       THEN /\ hist' = Call("parse", c, None, TRUE, None, None)
            /\ UNCHANGED <<ctx, runs>>
       ELSE LET a == ParseAttempts(ctx[c])
            IN  /\ ctx' = [ctx EXCEPT ![c] = Parse(@)]
                /\ runs' = [runs EXCEPT ![c] = 0]
                /\ hist' = [Call("parse", c, None, a.raised,
                                  TextDef[ctx[c].tokenStream.text].fast, a.general)
                               EXCEPT !.attempts = a.attempts]
  /\ UNCHANGED callVars
  /\ UNCHANGED extVars

\* The requests that run the semantic pass first.
Request(op, c) ==
  /\ Idle
  /\ ctx' = [ctx EXCEPT ![c] = RunSemanticAnalysisIfNeeded(@)]
  /\ runs' = CountRun(c)
  /\ hist' = Call(op, c, None, SemanticRaises(ctx[c]), None, None)
  /\ UNCHANGED callVars
  /\ UNCHANGED extVars

getDiagnostics(c) == Request("getDiagnostics", c)

getReferenceGraph(c) == Request("getReferenceGraph", c)

getRRDScript(c) == Request("getRRDScript", c)

intervalSetToStrings ==
  /\ Idle
  /\ pureCall.op = "set"
  /\ pureCall' = [op |-> "intervalSetToStrings", set |-> pureCall.set,
                  result |-> IntervalSetToStrings(pureCall.set)]
  /\ UNCHANGED <<ctx, callVars, runs, hist, constructed, globalSymbols, atnGraph, output, jobs>>

provideRenameEdits ==
  /\ Idle
  /\ pureCall.op = "rename"
  /\ pureCall' = [pureCall EXCEPT
                    !.op = "provideRenameEdits",
                    !.result = ProvideRenameEdits(pureCall.info, pureCall.occurences,
                                                  pureCall.newName)]
  /\ UNCHANGED <<ctx, callVars, runs, hist, constructed, globalSymbols, atnGraph, output, jobs>>

parseTreeFromPosition ==
  /\ Idle
  /\ pureCall.op = "position"
  /\ pureCall' = [pureCall EXCEPT
                    !.op = "parseTreeFromPosition",
                    !.result = ParseTreeFromPosition(pureCall.tree, 1, pureCall.column,
                                                     pureCall.row)]
  /\ UNCHANGED <<ctx, callVars, runs, hist, constructed, globalSymbols, atnGraph, output, jobs>>

\* getATNGraph on a context: the look-up that precedes the walk of the automaton.
getATNGraphFor(c, rule) ==
  /\ Idle
  /\ LET r == GetATNGraphStart(ctx[c], rule)
     IN  hist' = [Call("getATNGraph", c, rule, r.raised, None, None) EXCEPT !.answer = r.graph]
  /\ UNCHANGED <<ctx, callVars, runs>>
  /\ UNCHANGED extVars

resolveSymbol(c, symbolName) ==
  /\ Idle
  /\ hist' = [Call("resolveSymbol", c, symbolName, FALSE, None, None)
                 EXCEPT !.answer = ResolveSymbol(ctx, globalSymbols, c, symbolName)]
  /\ UNCHANGED <<ctx, callVars, runs>>
  /\ UNCHANGED extVars

\* The getter reads the list as it is: it does not run the semantic pass.
hasErrors(c) ==
  /\ Idle
  /\ hist' = [Call("hasErrors", c, None, FALSE, None, None) EXCEPT !.answer = HasErrors(ctx[c])]
  /\ UNCHANGED <<ctx, callVars, runs>>
  /\ UNCHANGED extVars

setupInterpreters(c, disk) ==
  /\ Idle
  /\ ctx' = [ctx EXCEPT ![c] = SetupInterpreters(@, disk)]
  /\ hist' = Call("setupInterpreters", c, None, FALSE, None, None)
  /\ UNCHANGED <<callVars, runs>>
  /\ UNCHANGED extVars

addAsReferenceTo(this, context) ==
  /\ Idle
  /\ pc' = "addAsReferenceTo"
  /\ self' = this
  /\ arg' = context
  /\ pipeline' = <<context>>
  /\ walkSeen' = {}
  /\ hist' = Call("addAsReferenceTo", this, context, FALSE, None, None)
  /\ UNCHANGED <<ctx, sym, stack, runs>>
  /\ UNCHANGED extVars

\* One iteration of the while loop.
addAsReferenceToWalk ==
  /\ pc = "addAsReferenceTo"
  /\ pipeline # <<>>
  /\ LET current == Head(pipeline)
     IN  IF AlreadyReferenced(current, self)
           THEN /\ pc' = "idle"
                /\ pipeline' = <<>>
                /\ walkSeen' = {}
                /\ self' = None
                /\ arg' = None
           ELSE /\ Len(PipelineAfter(current)) <= MaxPipeline
                /\ pipeline' = PipelineAfter(current)
                /\ walkSeen' = walkSeen \cup {pipeline}
                /\ UNCHANGED <<pc, self, arg>>
  /\ UNCHANGED <<ctx, sym, stack, runs, hist>>
  /\ UNCHANGED extVars

\* The loop has ended without a return.
addAsReferenceToLink ==
  /\ pc = "addAsReferenceTo"
  /\ pipeline = <<>>
  /\ ctx' = Link(self, arg)
  /\ pc' = "idle"
  /\ walkSeen' = {}
  /\ self' = None
  /\ arg' = None
  /\ UNCHANGED <<sym, pipeline, stack, runs, hist>>
  /\ UNCHANGED extVars

removeDependency(this, context) ==
  /\ Idle
  /\ ctx' = Unlink(this, context)
  /\ hist' = Call("removeDependency", this, context, FALSE, None, None)
  /\ UNCHANGED <<callVars, runs>>
  /\ UNCHANGED extVars

\* Entering getReferenceCount on context c: the semantic pass, then the local count.
\* An exception of the pass ends the call and the calls it is nested in.
Enter(c, n, frames) ==
  /\ ctx' = [ctx EXCEPT ![c] = RunSemanticAnalysisIfNeeded(@)]
  /\ runs' = CountRun(c)
  /\ IF SemanticRaises(ctx[c])
       THEN /\ pc' = "idle"
            /\ stack' = <<>>
            /\ sym' = None
       ELSE /\ pc' = "getReferenceCount"
            /\ stack' = Append(frames, Frame(RunSemanticAnalysisIfNeeded(ctx[c]), c, n))
            /\ sym' = n

getReferenceCount(c, n) ==
  /\ Idle
  /\ Enter(c, n, <<>>)
  /\ hist' = Call("getReferenceCount", c, n, SemanticRaises(ctx[c]), None, None)
  /\ UNCHANGED <<self, arg, pipeline, walkSeen>>
  /\ UNCHANGED extVars

\* The loop over this.references reaches the next reference: the recursive call.
getReferenceCountCall ==
  /\ pc = "getReferenceCount"
  /\ LET top  == stack[Len(stack)]
         next == ctx[top.ctx].references[top.idx]
     IN  /\ top.idx <= Len(ctx[top.ctx].references)
         /\ Len(stack) < MaxDepth
         /\ Enter(next, sym, stack)
         /\ hist' = [hist EXCEPT !.raised = SemanticRaises(ctx[next])]
  /\ UNCHANGED <<self, arg, pipeline, walkSeen>>
  /\ UNCHANGED extVars

\* The loop over this.references is through: return result.
getReferenceCountReturn ==
  /\ pc = "getReferenceCount"
  /\ LET top == stack[Len(stack)]
         n   == Len(stack)
     IN  /\ top.idx > Len(ctx[top.ctx].references)
         /\ IF n = 1
              THEN /\ hist' = [hist EXCEPT !.result = top.result]
                   /\ pc' = "idle"
                   /\ stack' = <<>>
                   /\ sym' = None
              ELSE /\ stack' = [SubSeq(stack, 1, n - 1) EXCEPT ![n - 1] = Accumulate(@, top.result)]
                   /\ UNCHANGED <<hist, pc, sym>>
  /\ UNCHANGED <<ctx, self, arg, pipeline, walkSeen, runs>>
  /\ UNCHANGED extVars

\* generateSentence(dependencies, rule, options, callback) with options.count = n;
\* failAt: the sentence at which the generator throws (at or above count: none).
generateSentence(c, dependencies, rule, n, failAt) ==
  /\ Idle
  /\ output' = GenerateSentence(ctx, ctx[c], dependencies, rule, n, failAt)
  /\ hist' = Call("generateSentence", c, rule, FALSE, None, None)
  /\ UNCHANGED <<ctx, callVars, pureCall, runs, constructed, globalSymbols, atnGraph, jobs>>

lexTestInput(c, lexerErrors) ==
  /\ Idle
  /\ output' = LexTestInput(ctx[c], lexerErrors)
  /\ hist' = Call("lexTestInput", c, None, FALSE, None, None)
  /\ UNCHANGED <<ctx, callVars, pureCall, runs, constructed, globalSymbols, atnGraph, jobs>>

parseTestInput(c, inputErrors) ==
  /\ Idle
  /\ output' = ParseTestInput(ctx[c], inputErrors)
  /\ hist' = Call("parseTestInput", c, None, FALSE, None, None)
  /\ UNCHANGED <<ctx, callVars, pureCall, runs, constructed, globalSymbols, atnGraph, jobs>>

\* generate(dependencies, {loadOnly: true}): the data is loaded at once.
generateLoadOnly(c, disk) ==
  /\ Idle
  /\ ctx' = [ctx EXCEPT ![c] = SetupInterpreters(@, disk)]
  /\ hist' = Call("generateLoadOnly", c, None, FALSE, None, None)
  /\ UNCHANGED <<callVars, pureCall, runs, constructed, globalSymbols, atnGraph, output, jobs>>

\* generate(dependencies, options) without loadOnly, up to the spawn of the process.
generate(c, dependencies) ==
  /\ Idle
  /\ Len(jobs) < MaxJobs
  /\ jobs' = Append(jobs, Spawn(c, dependencies))
  /\ hist' = Call("generate", c, None, FALSE, None, None)
  /\ UNCHANGED <<ctx, callVars, pureCall, runs, constructed, globalSymbols, atnGraph, output>>

\* java.stderr.on("data"): a chunk of error output of run j.
generateData(j, chunk) ==
  /\ Idle
  /\ jobs[j].process = "running"
  /\ Len(jobs[j].stderr) < MaxChunks
  /\ jobs' = [jobs EXCEPT ![j].stderr = Append(@, chunk),
                           ![j].buffer = Buffered(@, chunk)]
  /\ UNCHANGED <<ctx, callVars, pureCall, runs, hist, constructed, globalSymbols, atnGraph, output>>

\* java.on("close"): the process of run j has ended.
generateClose(j, converted, disk) ==
  /\ Idle
  /\ jobs[j].process = "running"
  /\ ctx' = [ctx EXCEPT ![jobs[j].ctx] = OnClose(@, converted, disk)]
  /\ jobs' = [jobs EXCEPT ![j] = Settle(@, converted, disk)]
  /\ hist' = Call("generateClose", jobs[j].ctx, None, FALSE, None, None)
  /\ UNCHANGED <<callVars, pureCall, runs, constructed, globalSymbols, atnGraph, output>>

\* getATNGraph(rule) on interpreter data whose automaton is a (None: no data for
\* this kind of rule): up to the loop, or to the return of undefined.
getATNGraph(a, rule) ==
  /\ Idle
  /\ atnGraph.pc \in {"idle", "done"}
  /\ atnGraph' = IF a = None \/ ~HasRule(a, rule)
                   THEN [NoGraph EXCEPT !.pc = "done", !.atn = a, !.rule = rule]
                   ELSE StartGraph(a, rule)
  /\ UNCHANGED <<ctx, callVars, pureCall, runs, hist, constructed, globalSymbols, output, jobs>>

\* while (pipeline.length > 0): the next state is shifted.
getATNGraphShift ==
  /\ atnGraph.pc = "while"
  /\ atnGraph.pipeline # <<>>
  /\ atnGraph' = ShiftState(atnGraph)
  /\ UNCHANGED <<ctx, callVars, pureCall, runs, hist, constructed, globalSymbols, output, jobs>>

\* for (const transition of state.getTransitions()): one transition.
getATNGraphFollow ==
  /\ atnGraph.pc = "for"
  /\ atnGraph.i <= Len(Transitions(atnGraph.atn, atnGraph.state))
  /\ atnGraph' = FollowTransition(atnGraph)
  /\ UNCHANGED <<ctx, callVars, pureCall, runs, hist, constructed, globalSymbols, output, jobs>>

\* The transitions of the state are through.
getATNGraphNext ==
  /\ atnGraph.pc = "for"
  /\ atnGraph.i > Len(Transitions(atnGraph.atn, atnGraph.state))
  /\ atnGraph' = [atnGraph EXCEPT !.pc = "while", !.state = -1, !.sourceIndex = -1, !.i = 0]
  /\ UNCHANGED <<ctx, callVars, pureCall, runs, hist, constructed, globalSymbols, output, jobs>>

\* The work list is empty: return result.
getATNGraphReturn ==
  /\ atnGraph.pc = "while"
  /\ atnGraph.pipeline = <<>>
  /\ atnGraph' = [atnGraph EXCEPT !.pc = "done"]
  /\ UNCHANGED <<ctx, callVars, pureCall, runs, hist, constructed, globalSymbols, output, jobs>>

----------------------------------------------------------------------------
(* Specifications *)

InitCall ==
  /\ pc = "idle"
  /\ self = None
  /\ arg = None
  /\ sym = None
  /\ pipeline = <<>>
  /\ walkSeen = {}
  /\ stack = <<>>
  /\ hist = NoCall

\* Every context has been constructed: the built-ins are defined.
InitExt ==
  /\ constructed = Contexts
  /\ globalSymbols = Construct(<<>>)
  /\ atnGraph = NoGraph
  /\ output = NoOutput
  /\ jobs = <<>>
  /\ pureCall = NoPureCall

\* The contexts after construction.
Init ==
  /\ ctx = [c \in Contexts |-> NewContext]
  /\ runs = [c \in Contexts |-> 0]
  /\ InitCall
  /\ InitExt

\* The contexts after construction and, on each, setText, parse and getDiagnostics.
InitMesh ==
  /\ ctx = [c \in Contexts |->
             RunSemanticAnalysisIfNeeded(Parse(SetText(NewContext, MeshTexts[c])))]
  /\ runs = [c \in Contexts |-> 1]
  /\ InitCall
  /\ InitExt

\* The parse cycle of one context.
NextParse ==
  \E c \in ParseContexts :
    \/ \E t \in Texts : setText(c, t)
    \/ parse(c)
    \/ getDiagnostics(c)
    \/ getReferenceGraph(c)
    \/ getRRDScript(c)
    \/ \E n \in Names : getReferenceCount(c, n)
    \/ getReferenceCountReturn
    \/ \E disk \in SUBSET InterpFiles : setupInterpreters(c, disk)

SpecParse == Init /\ [][NextParse]_vars

\* The mesh of parsed contexts.
NextMesh ==
  \/ \E this \in Contexts, context \in Contexts : addAsReferenceTo(this, context)
  \/ addAsReferenceToWalk
  \/ addAsReferenceToLink
  \/ \E this \in Contexts, context \in Contexts : removeDependency(this, context)
  \/ \E c \in Contexts, n \in Names : getReferenceCount(c, n)
  \/ getReferenceCountCall
  \/ getReferenceCountReturn

SpecMesh == InitMesh /\ [][NextMesh]_vars

\* The contexts of a split grammar (or two combined ones) and their interpreter data.
InterpContexts == {"A", "B"}

\* The texts they are given: A holds a combined or a parser grammar, B a lexer grammar.
InterpTexts == [A |-> {"clean", "parser"}, B |-> {"lexer"}]

\* The process before the first context is constructed.
InitInterp ==
  /\ ctx = [c \in Contexts |-> NewContext]
  /\ runs = [c \in Contexts |-> 0]
  /\ InitCall
  /\ constructed = {}
  /\ globalSymbols = <<>>
  /\ atnGraph = NoGraph
  /\ output = NoOutput
  /\ jobs = <<>>
  /\ pureCall = NoPureCall

\* Construction, loading and the interpreter data of the contexts.
NextInterp ==
  \/ \E c \in InterpContexts : construct(c)
  \/ \E c \in constructed : \E t \in InterpTexts[c] : setText(c, t)
  \/ \E c \in constructed : parse(c)
  \/ \E c \in constructed, disk \in SUBSET InterpFiles : setupInterpreters(c, disk)
  \/ \E c \in constructed, symbolName \in SymbolNames : resolveSymbol(c, symbolName)

SpecInterp == InitInterp /\ [][NextInterp]_vars

\* The dependency sets a caller passes for context c: the other contexts, or none.
DependencySets(c) == {<<>>} \cup {<<d>> : d \in InterpContexts \ {c}}

\* A combined or a parser grammar in A and a lexer grammar in B, both parsed.
InitSentence ==
  /\ ctx \in {[c \in Contexts |->
                 IF c = "A" THEN Parse(SetText(NewContext, t))
                 ELSE IF c = "B" THEN Parse(SetText(NewContext, "lexer"))
                 ELSE NewContext] : t \in InterpTexts["A"]}
  /\ runs = [c \in Contexts |-> 0]
  /\ InitCall
  /\ InitExt

\* Sentences and test input, between the loading and the dropping of the data.
NextSentence ==
  \/ \E c \in InterpContexts : parse(c)
  \/ \E c \in InterpContexts, disk \in SUBSET InterpFiles : setupInterpreters(c, disk)
  \/ \E c \in InterpContexts, rule \in SentenceRules, n \in 0..MaxCount :
        \E dependencies \in DependencySets(c), failAt \in 0..Count(<<n>>) :
          generateSentence(c, dependencies, rule, <<n>>, failAt)
  \/ \E c \in InterpContexts, lexerErrors \in BOOLEAN : lexTestInput(c, lexerErrors)
  \/ \E c \in InterpContexts, inputErrors \in BOOLEAN : parseTestInput(c, inputErrors)

SpecSentence == InitSentence /\ [][NextSentence]_vars

\* Sentences of the combined or the parser grammar, for every count a caller can give.
NextCount ==
  \/ \E disk \in SUBSET InterpFiles : setupInterpreters("A", disk)
  \/ \E rule \in SentenceRules, n \in CountOptions :
        \E failAt \in 0..Count(n) : generateSentence("A", <<>>, rule, n, failAt)

SpecCount == InitSentence /\ [][NextCount]_vars

\* The context whose grammar is generated; B is passed as its dependency or not.
GenerateContexts == {"A"}

\* Generation runs of one grammar, each from the spawn of its process to the close.
NextGenerate ==
  \/ \E c \in GenerateContexts, disk \in SUBSET InterpFiles : generateLoadOnly(c, disk)
  \/ \E c \in GenerateContexts : \E dependencies \in DependencySets(c) :
        generate(c, dependencies)
  \/ \E j \in 1..Len(jobs), chunk \in Chunks : generateData(j, chunk)
  \/ \E j \in 1..Len(jobs), converted \in ConversionOutcomes, disk \in SUBSET InterpFiles :
        generateClose(j, converted, disk)

SpecGenerate == InitSentence /\ [][NextGenerate]_vars

\* The extraction of the graph of a rule from the automata.
NextATN ==
  \/ \E a \in DOMAIN ATNs \cup {None}, rule \in RuleArgs : getATNGraph(a, rule)
  \/ getATNGraphShift
  \/ getATNGraphFollow
  \/ getATNGraphNext
  \/ getATNGraphReturn

SpecATN == Init /\ [][NextATN]_vars

\* The diagnostics of one context, as parse() and the semantic pass fill the list.
NextDiagnostics ==
  \E c \in ParseContexts :
    \/ \E t \in Texts : setText(c, t)
    \/ parse(c)
    \/ getDiagnostics(c)
    \/ hasErrors(c)

SpecDiagnostics == Init /\ [][NextDiagnostics]_vars

\* A label set of a lexer transition, before its conversion.
InitLabels ==
  /\ ctx = [c \in Contexts |-> NewContext]
  /\ runs = [c \in Contexts |-> 0]
  /\ InitCall
  /\ constructed = Contexts
  /\ globalSymbols = Construct(<<>>)
  /\ atnGraph = NoGraph
  /\ output = NoOutput
  /\ jobs = <<>>
  /\ pureCall \in {[op |-> "set", set |-> set] : set \in IntervalSets}

NextLabels == intervalSetToStrings

SpecLabels == InitLabels /\ [][NextLabels]_vars

\* A parse tree and a position, before the look-up.
InitPosition ==
  /\ ctx = [c \in Contexts |-> NewContext]
  /\ runs = [c \in Contexts |-> 0]
  /\ InitCall
  /\ constructed = Contexts
  /\ globalSymbols = Construct(<<>>)
  /\ atnGraph = NoGraph
  /\ output = NoOutput
  /\ jobs = <<>>
  /\ pureCall \in {[op |-> "position", tree |-> t, column |-> column, row |-> row,
                     result |-> Undefined] :
                      t \in DOMAIN ParseTrees, column \in 0..MaxColumn, row \in 0..MaxRow}

NextPosition == parseTreeFromPosition

SpecPosition == InitPosition /\ [][NextPosition]_vars

\* One call of provideRenameEdits, for every answer of the backend.
InitRename ==
  /\ ctx = [c \in Contexts |-> NewContext]
  /\ runs = [c \in Contexts |-> 0]
  /\ InitCall
  /\ constructed = Contexts
  /\ globalSymbols = Construct(<<>>)
  /\ atnGraph = NoGraph
  /\ output = NoOutput
  /\ jobs = <<>>
  /\ pureCall \in {[op |-> "rename", info |-> info, occurences |-> occurences,
                     newName |-> "renamed", result |-> [defined |-> FALSE, edits |-> <<>>]] :
                      info \in Infos, occurences \in Occurences}

NextRename == provideRenameEdits

SpecRename == InitRename /\ [][NextRename]_vars

\* The grammar kinds a context is given, by text.
SetupTexts == {"clean", "lexer", "parser", "empty"}

SetupContexts == {"A"}

\* A context constructed for any of the grammar files.
InitSetup ==
  /\ ctx \in {[c \in Contexts |->
                 IF c \in SetupContexts THEN [NewContext EXCEPT !.fileName = f]
                 ELSE NewContext] : f \in FileNames}
  /\ runs = [c \in Contexts |-> 0]
  /\ InitCall
  /\ InitExt

\* The loading of interpreter data, for every grammar kind and every file name.
NextSetup ==
  \/ \E c \in SetupContexts, t \in SetupTexts : setText(c, t)
  \/ \E c \in SetupContexts : parse(c)
  \/ \E c \in SetupContexts, disk \in SUBSET AllInterpFiles : setupInterpreters(c, disk)
  \/ \E c \in SetupContexts, rule \in SentenceRules : getATNGraphFor(c, rule)

SpecSetup == InitSetup /\ [][NextSetup]_vars

\* The texts a context is given while its grammar is generated.
ReloadTexts == {"clean", "lexer", "parser", "empty"}

ReloadContexts == {"A"}

\* The data files found when the data is loaded: none, or those of a run.
ReloadDisks == {{}, InterpFiles}

\* parse, the loading of the data and generation runs of one context, interleaved.
NextReload ==
  \/ \E c \in ReloadContexts, t \in ReloadTexts : setText(c, t)
  \/ \E c \in ReloadContexts : parse(c)
  \/ \E c \in ReloadContexts, disk \in ReloadDisks : setupInterpreters(c, disk)
  \/ \E c \in ReloadContexts : generate(c, <<>>)
  \/ \E j \in 1..Len(jobs), converted \in ConversionOutcomes, disk \in ReloadDisks :
        generateClose(j, converted, disk)

SpecReload == Init /\ [][NextReload]_vars

----------------------------------------------------------------------------
(* The mesh as a graph: X -> Y when X is in Y's reference list *)

Refs(c) == Range(ctx[c].references)

RECURSIVE Closure(_)
Closure(S) ==
  LET T == S \cup UNION {Refs(x) : x \in S}
  IN  IF T = S THEN S ELSE Closure(T)

\* The contexts that reference c, directly or through other contexts.
Referencing(c) == Closure(Refs(c))

RECURSIVE SumOfCounts(_, _)
SumOfCounts(S, n) ==
  IF S = {} THEN 0
  ELSE LET x == CHOOSE y \in S : TRUE
       IN  LocalReferenceCount(ctx[x], n) + SumOfCounts(S \ {x}, n)

NoDuplicates(s) == \A i, j \in 1..Len(s) : s[i] = s[j] => i = j

\* A call of addAsReferenceTo returns in this step.
AddReturns == pc = "addAsReferenceTo" /\ pc' = "idle"

----------------------------------------------------------------------------
(* Claims about the reference mesh, under SpecMesh *)

\* C1: after any sequence of addAsReferenceTo and removeDependency calls the
\* reference mesh contains no cycle; in particular A.addAsReferenceTo(B), made when B
\* already references A, links nothing, so no two contexts reference each other,
\* directly or through other contexts.
C1_NoMutualReference ==
  \A a, b \in Contexts : a # b => ~(a \in Referencing(b) /\ b \in Referencing(a))

\* C2: every call of addAsReferenceTo terminates.  The walk is deterministic and the
\* mesh does not change while it runs, so a walk that terminates never holds the same
\* work list twice.
C2_WalkNeverRepeats == pc = "addAsReferenceTo" => pipeline \notin walkSeen

\* C3: addAsReferenceTo is idempotent and never creates a duplicate edge: no context
\* occurs twice in a reference list, and a call that repeats the call before it
\* returns leaving every reference list and every dependency set as they were.
C3_Idempotent ==
  /\ [](\A c \in Contexts : NoDuplicates(ctx[c].references))
  /\ [][AddReturns /\ hist.again => ctx' = ctx]_vars

\* C3 witness: a repeated call has returned, and the first call had linked.
C3_Witness ==
  /\ pc = "idle"
  /\ hist.op = "addAsReferenceTo"
  /\ hist.again
  /\ hist.ctx \in Refs(hist.arg)
  /\ hist.arg \in ctx[hist.ctx].symbolTable.dependencies

\* C4: getReferenceCount(name) returns the context's own count plus the count of
\* every distinct context that references it, directly or through others, each
\* counted once.
C4_CountsEachOnce ==
  (pc = "idle" /\ hist.op = "getReferenceCount" /\ ~hist.raised)
    => hist.result = SumOfCounts({hist.ctx} \cup Referencing(hist.ctx), hist.arg)

----------------------------------------------------------------------------
(* Claims about the parse cycle, under SpecParse *)

\* The last call was parse() on a context that has a token stream.
Parsed == hist.op = "parse" /\ hist.pre.tokenStream.text # None

Requests == {"getDiagnostics", "getReferenceGraph", "getRRDScript", "getReferenceCount"}

C6_ParseClearsRuleMaps ==
  Parsed => /\ ctx[hist.ctx].grammarLexerRuleMap = {}
            /\ ctx[hist.ctx].grammarParserRuleMap = {}

\* C7: the semantic pass runs at most once per parse: the first request after a
\* parse runs it, a later request does not (and leaves the diagnostics as they
\* were), and parse() re-arms it.
C7_SemanticPassOncePerParse ==
  /\ \A c \in Contexts : runs[c] <= 1
  /\ hist.op \in Requests =>
       /\ runs[hist.ctx] = 1
       /\ hist.pre.semanticAnalysisDone =>
            ctx[hist.ctx].diagnostics = hist.pre.diagnostics
  /\ Parsed => runs[hist.ctx] = 0 /\ ~ctx[hist.ctx].semanticAnalysisDone

\* C7 witness: a request made after the pass had run on a tree that has semantic
\* findings.
C7_Witness ==
  /\ hist.op = "getDiagnostics"
  /\ hist.pre.semanticAnalysisDone
  /\ hist.pre.tree # None
  /\ SemanticDiagnostics(hist.pre.tree) # <<>>

\* C8: the diagnostics list is emptied only by parse(): whatever other call is made,
\* the semantic pass included, the entries that were in the list before the call
\* are still there, in the same order, at the head of the list.
C8_OnlyParseEmptiesDiagnostics ==
  (hist.op # None /\ hist.op # "parse") =>
    IsPrefix(hist.pre.diagnostics, ctx[hist.ctx].diagnostics)

\* C8 witness: the semantic pass has run on a list that held the errors of the last
\* parse, and has added to it.
C8_Witness ==
  /\ hist.op \in Requests
  /\ ~hist.pre.semanticAnalysisDone
  /\ hist.pre.diagnostics # <<>>
  /\ Len(ctx[hist.ctx].diagnostics) > Len(hist.pre.diagnostics)

C10_OnlyGeneralFailureRaises ==
  (Parsed /\ hist.raised) => hist.general = "throw"

\* C10, amended: a ParseCancellationException of the fail-fast run never reaches the
\* caller: it is answered by one general-strategy run.  Any other exception of the
\* fail-fast run is rethrown without a retry.  So parse() raises exactly when the
\* fail-fast run ended in another exception or the general run raised.
C10_OnlyCancellationRetried ==
  Parsed =>
    /\ hist.fast = "cancel" <=> hist.general # None
    /\ hist.raised <=> (hist.fast = "throw" \/ hist.general = "throw")

\* C10 witness: the fail-fast run was cancelled, the general run answered and parse()
\* returned.
C10_Witness ==
  /\ Parsed
  /\ hist.fast = "cancel"
  /\ hist.general = "tree"
  /\ ~hist.raised

----------------------------------------------------------------------------
(* The bounds cut only calls that run forever *)

\* A walk that is cut at MaxPipeline never finds `self` and goes round a cycle.
WalkCutOnlyWhenEndless ==
  (/\ pc = "addAsReferenceTo"
   /\ pipeline # <<>>
   /\ ~AlreadyReferenced(Head(pipeline), self)
   /\ Len(PipelineAfter(Head(pipeline))) > MaxPipeline)
    => /\ \A x \in Closure({arg}) : self \notin Refs(x)
       /\ \E x \in Closure({arg}) : x \in Referencing(x)

\* A recursion that is cut at MaxDepth has entered a context that references itself.
RecursionCutOnlyWhenEndless ==
  (/\ pc = "getReferenceCount"
   /\ Len(stack) >= MaxDepth
   /\ stack[Len(stack)].idx <= Len(ctx[stack[Len(stack)].ctx].references))
    => \E i \in 1..Len(stack) : stack[i].ctx \in Referencing(stack[i].ctx)

----------------------------------------------------------------------------
(* The global table of built-ins *)

\* The number of definitions of name b in the global table.
Definitions(b) == Cardinality({i \in 1..Len(globalSymbols) : globalSymbols[i] = b})

\* C11: before the first construction the global table is empty; after any number
\* of constructions it holds the four built-ins and exactly one definition of each.
C11_BuiltInsDefinedOnce ==
  IF constructed = {}
    THEN globalSymbols = <<>>
    ELSE /\ Len(globalSymbols) = 4
         /\ \A b \in Range(BuiltIns) : Definitions(b) = 1

\* C11 witness: a second context has just been constructed.
C11_Witness ==
  /\ hist.op = "construct"
  /\ Cardinality(constructed) = 2
  /\ Resolve(globalSymbols, "EOF")

----------------------------------------------------------------------------
(* The graph of a rule *)

\* The states a traversal goes to from state n: none from the stop state, else the
\* target of each transition, or its follow state when the target starts a rule.
Successors(a, stopState, n) ==
  IF n = stopState
    THEN {}
    ELSE {IF TransitsToRule(a, Transitions(a, n)[k])
            THEN Transitions(a, n)[k].followState
            ELSE Transitions(a, n)[k].target : k \in 1..Len(Transitions(a, n))}

RECURSIVE Reachable(_, _, _)
Reachable(a, stopState, S) ==
  LET T == S \cup UNION {Successors(a, stopState, n) : n \in S}
  IN  IF T = S THEN S ELSE Reachable(a, stopState, T)

\* The nodes of called rules in the graph built so far.
RuleNodes == {k \in 1..Len(atnGraph.nodes) : atnGraph.nodes[k].type = RuleNodeType}

\* C12: no state is put on the work list twice and none is expanded twice, so the
\* loop ends after at most one iteration per state of the automaton; the graph has
\* at most one node per state reachable from the start state, plus the rule nodes.
C12_EachStateExpandedOnce ==
  atnGraph.defined =>
    /\ NoDuplicates(atnGraph.pushed)
    /\ NoDuplicates(atnGraph.shifted)
    /\ Len(atnGraph.shifted) <= Len(ATNs[atnGraph.atn].states)
    /\ Len(atnGraph.nodes) <=
         Cardinality(Reachable(atnGraph.atn, atnGraph.stopState, {atnGraph.pushed[1]}))
           + Cardinality(RuleNodes)

\* C12 witness: the graph of the left-recursive rule has been returned; its loop
\* led the traversal to states it had seen, and the rule called itself.
C12_Witness ==
  /\ atnGraph.pc = "done"
  /\ atnGraph.atn = "leftrec"
  /\ Len(atnGraph.links) > Len(atnGraph.pushed)
  /\ RuleNodes # {}

\* The nodes made for the stop state of the rule.
StopNodes ==
  {k \in 1..Len(atnGraph.nodes) :
     /\ atnGraph.nodes[k].id = atnGraph.stopState
     /\ atnGraph.nodes[k].type = ATNStateType["RULE_STOP"]}

\* C13: no link starts at the node of the stop state or was made for a transition
\* of the stop state, and an iteration over a transition of the stop state leaves
\* the nodes, the links, the seen states and the work list as they are.
C13_StopStateNotLeft ==
  /\ [](\A k \in 1..Len(atnGraph.links) :
          /\ atnGraph.links[k].source + 1 \notin StopNodes
          /\ atnGraph.linkFrom[k].state # atnGraph.stopState)
  /\ [][atnGraph.pc = "for" /\ atnGraph.state = atnGraph.stopState =>
          /\ atnGraph'.nodes = atnGraph.nodes
          /\ atnGraph'.links = atnGraph.links
          /\ atnGraph'.seenStates = atnGraph.seenStates
          /\ atnGraph'.pipeline = atnGraph.pipeline]_vars

\* C13 witness: the stop state has been expanded, it has transitions to the follow
\* states of the calls of its rule, and the graph has been returned.
C13_Witness ==
  /\ atnGraph.pc = "done"
  /\ atnGraph.defined
  /\ atnGraph.stopState \in Range(atnGraph.shifted)
  /\ Transitions(atnGraph.atn, atnGraph.stopState) # <<>>

\* The nodes made for state n: its number as id and its state type as type.
NodesOf(n) ==
  {k \in 1..Len(atnGraph.nodes) :
     /\ atnGraph.nodes[k].id = n
     /\ atnGraph.nodes[k].type = ATNStateType[StateOf(atnGraph.atn, n).stateType]}

\* C14: every link starts and ends at the node that was made for the state or the
\* call it was created for, and every expanded state has a node of its own.
C14_NodeIdsUnambiguous ==
  /\ \A k \in 1..Len(atnGraph.links) :
       /\ atnGraph.nodeFor[atnGraph.links[k].source + 1] = atnGraph.linkFrom[k]
       /\ atnGraph.nodeFor[atnGraph.links[k].target + 1] = atnGraph.linkTo[k]
  /\ \A k \in 1..Len(atnGraph.shifted) : NodesOf(atnGraph.shifted[k]) # {}

\* The transitions into a rule that the traversal has gone through: state and index.
CallsFollowed ==
  {c \in Range(atnGraph.shifted) \X (1..2) :
     /\ c[1] # atnGraph.stopState
     /\ c[2] <= Len(Transitions(atnGraph.atn, c[1]))
     /\ TransitsToRule(atnGraph.atn, Transitions(atnGraph.atn, c[1])[c[2]])}

\* The links from a node of state n to a rule node with name `name`.
CallLinks(n, name) ==
  {k \in 1..Len(atnGraph.links) :
     /\ atnGraph.links[k].source + 1 \in NodesOf(n)
     /\ atnGraph.links[k].target + 1 \in RuleNodes
     /\ atnGraph.nodes[atnGraph.links[k].target + 1].name = name}

\* The epsilon links from the node with index `index` to a node of state n.
ReturnLinks(index, n) ==
  {k \in 1..Len(atnGraph.links) :
     /\ atnGraph.links[k].source = index
     /\ atnGraph.links[k].target + 1 \in NodesOf(n)
     /\ atnGraph.links[k].labels = <<"epsilon">>}

\* C15: in the graph returned, every transition of an expanded state S into a rule
\* has one link from the node of S to a type-13 node with the name of the rule and
\* one epsilon link from there to the node of the follow state; the follow state
\* was put on the work list and the start state of the called rule was not.
C15_RuleCallShape ==
  atnGraph.pc = "done" =>
    \A c \in CallsFollowed :
      LET transition == Transitions(atnGraph.atn, c[1])[c[2]]
          calls == CallLinks(c[1], RuleNameOf(atnGraph.atn, transition.target))
      IN  /\ Cardinality(calls) = 1
          /\ \A k \in calls :
               Cardinality(ReturnLinks(atnGraph.links[k].target, transition.followState)) = 1
          /\ transition.followState \in Range(atnGraph.pushed)
          /\ transition.target \in Range(atnGraph.pushed) =>
               transition.target = atnGraph.pushed[1]

----------------------------------------------------------------------------
(* Sentences and test input *)

\* The calls of the callback with index i in the last request.
CallbacksFor(i) == {k \in 1..Len(output.callbacks) : output.callbacks[k].index = i}

\* C16: when the generator was started for count sentences, each index below count
\* has had exactly one call of the callback, whether or not a sentence failed.
C16_OneCallbackPerIndex ==
  hist.op = "generateSentence" /\ output.count > 0 =>
    \A i \in 0..(output.count - 1) : Cardinality(CallbacksFor(i)) = 1

\* The last request was generateSentence and all it did was one call of the
\* callback, with this text and index 0.
OnlyCallback(text) ==
  /\ output.callbacks = <<Callback(text, 0)>>
  /\ output.count = 0
  /\ ~hist.raised

\* C17: the first prerequisite that is missing, in the order data, rule name, lexer
\* data, parser data, lexer rule, parser rule, decides the one placeholder given.
C17_PlaceholderInOrder ==
  hist.op = "generateSentence" =>
    LET s          == hist.pre
        rule       == hist.arg
        anyData    == s.grammarLexerData # None \/ s.grammarParserData # None
        lexerData  == SentenceLexerData(ctx, s, output.dependencies) # None
        parserData == IsLexerRule(rule) \/ SentenceParserData(s) # None
        lexerRule  == IsLexerRule(rule) => rule \in s.grammarLexerRuleMap
    IN  /\ ~anyData => OnlyCallback("[No grammar data available]")
        /\ anyData /\ rule = "" => OnlyCallback("[No rule specified]")
        /\ anyData /\ rule # "" /\ ~lexerData => OnlyCallback("[No lexer data available]")
        /\ anyData /\ rule # "" /\ lexerData /\ ~parserData =>
             OnlyCallback("[No parser data available]")
        /\ anyData /\ rule # "" /\ lexerData /\ parserData /\ ~lexerRule =>
             OnlyCallback("[Virtual or undefined token]")
        /\ anyData /\ rule # "" /\ lexerData /\ parserData /\ ~IsLexerRule(rule)
             /\ rule \notin s.grammarParserRuleMap =>
             OnlyCallback("[Undefined rule]")

\* C17 witness: with lexer and parser data loaded, a sentence was asked for a name
\* that is no rule, and the one callback said so.
C17_Witness ==
  /\ hist.op = "generateSentence"
  /\ hist.arg = "q"
  /\ hist.pre.grammarLexerData # None
  /\ hist.pre.grammarParserData # None
  /\ OnlyCallback("[Undefined rule]")

\* A lexer grammar with loaded data is among the contexts ds.
CompanionLexer(ds) ==
  \E d \in ds : ctx[d].infoType = "Lexer" /\ ctx[d].grammarLexerData # None

\* The last request reported missing lexer or interpreter data.
ReportsMissingData ==
  \/ output.callbacks = <<Callback("[No grammar data available]", 0)>>
  \/ output.callbacks = <<Callback("[No lexer data available]", 0)>>
  \/ output.errors = <<"No interpreter data available">>

\* C18: a parser grammar with its parser data and a companion lexer grammar with
\* loaded data, or a combined grammar with both kinds of data of its own: neither a
\* sentence for a parser rule nor a test of input reports missing data.
C18_SplitGrammarLexerData ==
  LET s == hist.pre
  IN  /\ hist.op = "generateSentence" /\ hist.arg \in {"r", "q"}
           /\ s.infoType = "Parser" /\ s.grammarParserData # None
           /\ CompanionLexer(Range(output.dependencies))
           => ~ReportsMissingData
      /\ hist.op = "parseTestInput"
           /\ s.infoType = "Parser" /\ s.grammarParserData # None
           /\ CompanionLexer(InterpContexts \ {hist.ctx})
           => ~ReportsMissingData
      /\ hist.op \in {"generateSentence", "parseTestInput"} /\ hist.arg \in {None, "r", "q"}
           /\ s.infoType = "Combined"
           /\ s.grammarLexerData # None /\ s.grammarParserData # None
           => ~ReportsMissingData

\* C19: lexTestInput without lexer data and parseTestInput without lexer or parser
\* data say that data is missing.
C19_MissingDataReported ==
  /\ hist.op = "lexTestInput" /\ hist.pre.grammarLexerData = None =>
       output.error # ""
  /\ hist.op = "parseTestInput"
       /\ (hist.pre.grammarLexerData = None \/ hist.pre.grammarParserData = None) =>
       output.errors = <<"No interpreter data available">>

----------------------------------------------------------------------------
(* Generation runs *)

\* The interpreter data and the rule maps of a context.
InterpreterData(s) ==
  <<s.grammarLexerData, s.grammarLexerRuleMap, s.grammarParserData, s.grammarParserRuleMap>>

\* The text a run has written to stderr, without the line of the Java runtime.
ErrorOutput(job) == SelectSeq(job.stderr, LAMBDA chunk : chunk # "Picked up _JAVA_OPTIONS:")

\* Run j is settled in this step.
Settles(j) == jobs[j].promise = "pending" /\ jobs'[j].promise # "pending"

\* A settled run stays as it is; the step that resolves a run has loaded the data
\* of its context, the step that rejects it has left data and rule maps alone.
SettledOnce ==
  \A j \in 1..Len(jobs) :
    /\ jobs[j].promise # "pending" => jobs'[j] = jobs[j]
    /\ Settles(j) /\ jobs'[j].promise = "resolved" =>
         ctx'[jobs[j].ctx] = SetupInterpreters(ctx[jobs[j].ctx], jobs'[j].disk)
    /\ Settles(j) /\ jobs'[j].promise = "rejected" =>
         InterpreterData(ctx'[jobs[j].ctx]) = InterpreterData(ctx[jobs[j].ctx])

\* A step of a run that settles none changes no context.
DataOnlyAtClose ==
  (jobs' # jobs /\ \A j \in 1..Len(jobs) : ~Settles(j)) => ctx' = ctx

\* C20: the promise of a run is pending exactly as long as its process runs; it is
\* resolved with the file names of the context and its dependencies or rejected
\* with the error output, and a settled promise never changes.  The step that
\* resolves it has loaded the interpreter data; the step that rejects it, the start
\* of a run and its error output leave the data and the rule maps as they are.
C20_SettlesOnceAfterClose ==
  /\ [](\A j \in 1..Len(jobs) :
          /\ jobs[j].promise = "pending" <=> jobs[j].process = "running"
          /\ jobs[j].ctx \in Range(jobs[j].fileList)
          /\ jobs[j].promise = "resolved" => jobs[j].value = jobs[j].fileList
          /\ jobs[j].promise = "rejected" => jobs[j].value = ErrorOutput(jobs[j]))
  /\ [][SettledOnce /\ DataOnlyAtClose]_vars

\* C20 witness: a run that wrote error output was rejected while the context held
\* interpreter data.
C20_Witness ==
  /\ hist.op = "generateClose"
  /\ \E j \in 1..Len(jobs) :
       /\ jobs[j].promise = "rejected"
       /\ jobs[j].value # <<>>
       /\ ctx[jobs[j].ctx].grammarLexerData # None

----------------------------------------------------------------------------
(* C21 *)

\* The data files of each grammar file: the one named after it, and the lexer data
\* file of a combined grammar.
C21_Expected ==
  ("base.g4" :> [own |-> "base.interp", lexer |-> "baseLexer.interp"]) @@
  ("base.g" :> [own |-> "base.interp", lexer |-> "baseLexer.interp"]) @@
  ("baseParser.g4" :> [own |-> "baseParser.interp", lexer |-> "baseLexer.interp"])

\* C21: setupInterpreters chooses the data files from the grammar kind.  A lexer
\* grammar loads lexer data from <base>.interp and no parser data, a parser grammar
\* parser data from <base>.interp and no lexer data, a combined grammar parser data
\* from <base>.interp and lexer data from <base>Lexer.interp with a trailing
\* "Parser" taken off <base> for the lexer file only, an unknown kind loads nothing.
\* A file that does not exist is no error: that data is absent afterwards and its
\* rule map is empty.
C21_FilesByKind ==
  [][\A c \in SetupContexts, disk \in SUBSET AllInterpFiles :
       setupInterpreters(c, disk) =>
         LET s      == ctx'[c]
             e      == C21_Expected[ctx[c].fileName]
             kind   == ctx[c].infoType
             lexer  == CASE kind = "Lexer"    -> e.own
                         [] kind = "Combined" -> e.lexer
                         [] OTHER             -> None
             parser == CASE kind = "Parser"   -> e.own
                         [] kind = "Combined" -> e.own
                         [] OTHER             -> None
         IN  /\ ~hist'.raised
             /\ s.grammarLexerData = (IF lexer \in disk THEN lexer ELSE None)
             /\ s.grammarParserData = (IF parser \in disk THEN parser ELSE None)
             /\ s.grammarLexerData = None => s.grammarLexerRuleMap = {}
             /\ s.grammarParserData = None => s.grammarParserRuleMap = {}]_vars

\* A combined grammar named baseParser has loaded both its files, and its lexer data
\* only after a load that found the parser file alone.
C21_Witness ==
  /\ hist.op = "setupInterpreters"
  /\ ctx["A"].fileName = "baseParser.g4"
  /\ ctx["A"].infoType = "Combined"
  /\ ctx["A"].grammarLexerData = "baseLexer.interp"
  /\ ctx["A"].grammarParserData = "baseParser.interp"
  /\ hist.pre.grammarLexerData = None
  /\ hist.pre.grammarParserData = "baseParser.interp"

----------------------------------------------------------------------------
(* C22 *)

\* C22: setText replaces only the token stream.  The parse tree, the symbol table,
\* the diagnostics, the grammar kind, the imports, the semantic-analysis-done flag,
\* the interpreter data, the rule maps, the references and the parser kept for
\* code completion (every other field of the context) are as they were before
\* the call, and no other context changes.
C22_SetTextOnlyTokenStream ==
  [][\A c \in ParseContexts, t \in Texts :
       setText(c, t) =>
         /\ \A f \in (DOMAIN NewContext) \ {"tokenStream"} : ctx'[c][f] = ctx[c][f]
         /\ \A f \in {"tree", "symbolTable", "diagnostics", "infoType", "imports",
                      "semanticAnalysisDone", "grammarLexerData", "grammarParserData",
                      "grammarLexerRuleMap", "grammarParserRuleMap", "references",
                      "parser"} : f \in DOMAIN NewContext
         /\ ctx'[c].tokenStream.text = t
         /\ \A o \in Contexts \ {c} : ctx'[o] = ctx[o]]_vars

\* A text was set on a context that holds a tree, imports, diagnostics, interpreter
\* data and the parser of another text.
C22_Witness ==
  /\ hist.op = "setText"
  /\ ctx["A"].tree # None
  /\ ctx["A"].imports # {}
  /\ ctx["A"].diagnostics # <<>>
  /\ ctx["A"].semanticAnalysisDone
  /\ ctx["A"].grammarParserData # None
  /\ ctx["A"].grammarParserRuleMap # {}
  /\ ctx["A"].parser \notin {None, ctx["A"].tokenStream.text}

----------------------------------------------------------------------------
(* C23 *)

\* The types of the entries the list of context c holds.
DiagnosticTypes(c) == {ctx[c].diagnostics[i].type : i \in 1..Len(ctx[c].diagnostics)}

\* C23: hasErrors is true exactly when the diagnostics list of the context holds,
\* at the time of the call, at least one entry of Error severity; it is false for
\* an empty list and for a list of warnings only.
C23_HasErrorsIffErrorEntry ==
  hist.op = "hasErrors" => (hist.answer <=> "Error" \in DiagnosticTypes(hist.ctx))

\* hasErrors answered false on a list that holds a warning and no error.
C23_Witness ==
  /\ hist.op = "hasErrors"
  /\ ~hist.answer
  /\ DiagnosticTypes(hist.ctx) = {"Warning"}

----------------------------------------------------------------------------
(* C24 *)

\* C24: parse() runs the entry rule at most twice.  The first run is fail-fast
\* (bail error handler, SLL prediction); a second run is made exactly when the
\* first ended in a parse cancellation, from token index 0, with the recovering
\* error handler and LL prediction; there is no third run, and the tree the context
\* keeps is the one of the last run (none when that run raised).
C24_AtMostTwoAttempts ==
  (hist.op = "parse" /\ hist.pre.tokenStream.text # None) =>
    LET r == hist.attempts
        n == Len(r)
    IN  /\ n \in {1, 2}
        /\ r[1].errorHandler = "BailErrorStrategy"
        /\ r[1].predictionMode = "SLL"
        /\ r[1].index = 0
        /\ n = 2 <=> r[1].ended = "cancel"
        /\ n = 2 => /\ r[2].errorHandler = "DefaultErrorStrategy"
                    /\ r[2].predictionMode = "LL"
                    /\ r[2].index = 0
        /\ ctx[hist.ctx].tree =
             (IF r[n].ended = "tree" THEN hist.pre.tokenStream.text ELSE None)
        /\ hist.raised <=> r[n].ended # "tree"

\* A parse whose fail-fast run was cancelled kept the tree of its second run.
C24_Witness ==
  /\ hist.op = "parse"
  /\ Len(hist.attempts) = 2
  /\ hist.attempts[1].ended = "cancel"
  /\ ctx[hist.ctx].tree # None
  /\ ~hist.raised

----------------------------------------------------------------------------
(* C25 *)

\* C25: after every parse() that returns, resolveSymbol on that context finds each
\* of EOF, DEFAULT_MODE, HIDDEN and DEFAULT_TOKEN_CHANNEL.  Every parse() of a
\* context that has a text, whether it returns or raises, has emptied the symbol
\* table and made the global table its dependency again; what the walk of the tree
\* defines is added to that.
C25_BuiltInsResolvable ==
  /\ (hist.op = "parse" /\ hist.pre.tokenStream.text # None) =>
        /\ ctx[hist.ctx].symbolTable.dependencies = {Global}
        /\ ~hist.raised =>
              \A b \in {"EOF", "DEFAULT_MODE", "HIDDEN", "DEFAULT_TOKEN_CHANNEL"} :
                 ResolveSymbol(ctx, globalSymbols, hist.ctx, b)
  /\ (/\ hist.op = "resolveSymbol"
      /\ ctx[hist.ctx].tree # None
      /\ hist.arg \in {"EOF", "DEFAULT_MODE", "HIDDEN", "DEFAULT_TOKEN_CHANNEL"}) => hist.answer

\* A built-in was resolved on a context parsed twice, whose own symbols do not
\* hold it.
C25_Witness ==
  /\ hist.op = "resolveSymbol"
  /\ hist.arg = "HIDDEN"
  /\ hist.answer
  /\ ctx[hist.ctx].tree # None
  /\ ctx[hist.ctx].tokenStream.fetched
  /\ "HIDDEN" \notin ctx[hist.ctx].symbolTable.symbols

----------------------------------------------------------------------------
(* C26 *)

\* Whether the data for the kind of the rule is loaded and its rule map holds the rule.
RuleKnown(s, rule) ==
  IF IsLexerRule(rule) THEN s.grammarLexerData # None /\ rule \in s.grammarLexerRuleMap
  ELSE s.grammarParserData # None /\ rule \in s.grammarParserRuleMap

\* C26: getATNGraph never raises, for every rule name (the empty string and names
\* no rule map holds included) and every combination of loaded and absent
\* interpreter data; it returns no result exactly when the data for the kind of the
\* rule is absent or the rule is not in the rule map of that kind.
C26_NeverRaises ==
  hist.op = "getATNGraph" =>
    /\ ~hist.raised
    /\ hist.answer <=> RuleKnown(ctx[hist.ctx], hist.arg)

\* For every rule name but the empty one the call degrades as described.
NamedRuleDegrades ==
  (hist.op = "getATNGraph" /\ hist.arg # "") =>
    /\ ~hist.raised
    /\ hist.answer <=> RuleKnown(ctx[hist.ctx], hist.arg)

----------------------------------------------------------------------------
(* C27 *)

\* The number a sequence of hexadecimal digits stands for.
RECURSIVE HexValue(_)
HexValue(digits) ==
  IF digits = <<>> THEN 0
  ELSE 16 * HexValue(SubSeq(digits, 1, Len(digits) - 1))
       + (CHOOSE v \in 0..15 : HexDigits[v + 1] = digits[Len(digits)])

\* Control characters (0x7F among them), the space, 0x80 to 0xA0 and everything
\* above 0xFF.
NonPrintable(char) ==
  char >= 0 /\ (char <= 32 \/ char = 127 \/ (char >= 128 /\ char <= 160) \/ char > 255)

\* A code point rendered as said: EOF when negative, an escaped hexadecimal value
\* when not printable, the quoted character otherwise.
Rendered(piece, char) ==
  IF char < 0 THEN piece.piece = "EOF"
  ELSE IF NonPrintable(char) THEN piece.piece = "\\u" /\ HexValue(piece.digits) = char
  ELSE piece.piece = "'c'" /\ piece.char = char

\* One string for each interval, in the order of the intervals: the low end alone
\* when the ends are equal, otherwise low end, " - ", high end.
RenderedWith(rendered(_, _)) ==
  pureCall.op = "intervalSetToStrings" =>
    /\ Len(pureCall.result) = Len(pureCall.set)
    /\ \A i \in 1..Len(pureCall.set) :
         LET entry    == pureCall.result[i]
             interval == pureCall.set[i]
         IN  /\ rendered(entry[1], interval.a)
             /\ IF interval.a = interval.b THEN Len(entry) = 1
                ELSE /\ Len(entry) = 3
                     /\ entry[2].piece = " - "
                     /\ rendered(entry[3], interval.b)

\* C27: for a lexer transition label one string is produced for each interval, in
\* interval order: one code point when the ends are equal, otherwise
\* "<low> - <high>".  A negative value is rendered as EOF, a printable character as
\* the quoted character, every code point that is not printable (control characters
\* with 0x7F, the space, 0x80 to 0xA0, everything above 0xFF) as an escaped
\* hexadecimal value.
C27_LabelsReadable == RenderedWith(Rendered)

\* The same for every code point but 0x7F.
LabelsReadableButDelete ==
  RenderedWith(LAMBDA piece, char : char = 127 \/ Rendered(piece, char))

----------------------------------------------------------------------------
(* C28 *)

\* Whether the token holds or touches (column, row).
Touches(token, column, row) ==
  /\ token.line = row
  /\ token.charPositionInLine <= column
  /\ column <= token.charPositionInLine + (token.stopIndex - token.startIndex + 1)

\* Whether node n of tree t covers (column, row): a terminal when its token does, a
\* context when the position lies between the start of its first token and the end
\* of its last one.
Covers(t, n, column, row) ==
  LET node == ParseTrees[t][n]
  IN  IF node.terminal THEN Touches(node.symbol, column, row)
      ELSE /\ node.start # NoToken
           /\ node.stop # NoToken
           /\ \/ node.start.line < row
              \/ node.start.line = row /\ node.start.charPositionInLine <= column
           /\ \/ row < node.stop.line
              \/ /\ row = node.stop.line
                 /\ column <= node.stop.charPositionInLine
                              + (node.stop.stopIndex - node.stop.startIndex + 1)

\* C28: the node parseTreeFromPosition returns covers the position and none of its
\* children covers it; the result is undefined when (and only when) the root does
\* not cover the position; when two tokens both touch the column the one that comes
\* first in child order is returned.
C28_SmallestCoveringNode ==
  pureCall.op = "parseTreeFromPosition" =>
    LET t      == pureCall.tree
        column == pureCall.column
        row    == pureCall.row
        result == pureCall.result
    IN  /\ result = Undefined <=> ~Covers(t, 1, column, row)
        /\ result # Undefined =>
             /\ Covers(t, result, column, row)
             /\ \A i \in 1..Len(ParseTrees[t][result].children) :
                   ~Covers(t, ParseTrees[t][result].children[i], column, row)
             /\ \A n \in 1..(result - 1) :
                   ~(ParseTrees[t][n].terminal /\ Covers(t, n, column, row))

\* The column at which the tokens "ab" and "cd" meet was looked up below two rule
\* contexts: the first of the two tokens was returned.
C28_Witness ==
  /\ pureCall.op = "parseTreeFromPosition"
  /\ pureCall.tree = "nested"
  /\ pureCall.row = 1
  /\ pureCall.column = 2
  /\ pureCall.result = 3
  /\ Covers("nested", 5, 2, 1)

----------------------------------------------------------------------------
(* C29 *)

\* Whether a context with fields s has what a sentence for the rule needs.
Prerequisites(s, rule, dependencies) ==
  /\ s.grammarLexerData # None \/ s.grammarParserData # None
  /\ rule # ""
  /\ SentenceLexerData(ctx, s, dependencies) # None
  /\ IF IsLexerRule(rule) THEN rule \in s.grammarLexerRuleMap
     ELSE SentenceParserData(s) # None /\ rule \in s.grammarParserRuleMap

\* max(count or 1, 1) for the count option given.
Wanted(options) == IF options = <<>> \/ options[1] <= 0 THEN 1 ELSE options[1]

\* C29: with all prerequisites present and no failure of the generator,
\* generateSentence calls the callback exactly n = max(options.count or 1, 1)
\* times, with the indexes 0, 1, ..., n-1 in increasing order and one sentence
\* each; a count of 0 or below (or none) gives exactly one sentence.
C29_CountSentencesInOrder ==
  (/\ hist.op = "generateSentence"
   /\ Prerequisites(hist.pre, hist.arg, output.dependencies)
   /\ ~output.failed) =>
     output.callbacks = [i \in 1..Wanted(output.options) |-> Callback("sentence", i - 1)]

\* A negative count gave one sentence.
C29_Witness ==
  /\ hist.op = "generateSentence"
  /\ Prerequisites(hist.pre, hist.arg, output.dependencies)
  /\ ~output.failed
  /\ output.options = <<-1>>
  /\ output.callbacks = <<Callback("sentence", 0)>>

----------------------------------------------------------------------------
(* C30 *)

\* C30: getReferenceCount terminates on every mesh addAsReferenceTo can build, two
\* contexts that reference each other included: the recursion over the reference
\* lists never re-enters a context without bound.  A call that is entered for a
\* context while another call for that context is still active finds the same
\* reference lists again and repeats itself for ever; so no context is twice among
\* the active calls.
C30_NoContextEnteredAgain ==
  pc = "getReferenceCount" =>
    \A i, j \in 1..Len(stack) : stack[i].ctx = stack[j].ctx => i = j

----------------------------------------------------------------------------
(* C31 *)

\* C31: a context is never a member of its own reference list, and its symbol
\* table never depends on itself: A.addAsReferenceTo(A) appends nothing and adds
\* no dependency.
C31_NoSelfReference ==
  \A c \in Contexts :
    /\ c \notin Refs(c)
    /\ c \notin ctx[c].symbolTable.dependencies

----------------------------------------------------------------------------
(* C32 *)

\* a is in b's reference list exactly when b's symbol table is a dependency of a's.
ReferencesMatchDependencies ==
  \A a, b \in Contexts :
    (a \in Refs(b)) <=> (b \in ctx[a].symbolTable.dependencies)

\* The entry and the edge of this.removeDependency(context) are gone afterwards,
\* and every other list and every other edge is as it was.
RemoveDependencyFrame ==
  \A this, context \in Contexts :
    removeDependency(this, context) =>
      /\ this \notin Range(ctx'[context].references)
      /\ context \notin ctx'[this].symbolTable.dependencies
      /\ \A other \in Contexts \ {context} :
           ctx'[other].references = ctx[other].references
      /\ \A a \in Contexts :
           ctx'[a].symbolTable.dependencies \ (IF a = this THEN {context} ELSE {})
             = ctx[a].symbolTable.dependencies \ (IF a = this THEN {context} ELSE {})

\* C32: after any sequence of addAsReferenceTo and removeDependency calls the
\* reference lists and the dependency edges of the symbol tables agree, and
\* A.removeDependency(B) removes that list entry and that edge and nothing else.
C32_ReferencesAndEdgesAgree ==
  /\ []ReferencesMatchDependencies
  /\ [][RemoveDependencyFrame]_vars

\* A removal that took an existing entry and edge away while another list is filled.
C32_Witness ==
  /\ hist.op = "removeDependency"
  /\ hist.arg \in hist.pre.symbolTable.dependencies
  /\ hist.arg \notin ctx[hist.ctx].symbolTable.dependencies
  /\ hist.ctx \notin Refs(hist.arg)
  /\ \E other \in Contexts \ {hist.arg} : Refs(other) # {}

----------------------------------------------------------------------------
(* C36 *)

\* C36: a semantic pass that raises is not recorded as done: after a request
\* whose pass raised the flag is still unset, and every request made while the
\* context has no parse tree runs the pass (and so raises) again.
C36_RaisingPassNotDone ==
  hist.op \in Requests =>
    /\ hist.raised => ~ctx[hist.ctx].semanticAnalysisDone
    /\ hist.pre.tree = None => hist.raised

----------------------------------------------------------------------------
(* C34 *)

\* The entries of a diagnostics list that the parser's error listener added.
SyntaxEntries(d) == SelectSeq(d, LAMBDA e : e.message = "syntax error")

\* C34: when parse() fell back to the general strategy and returned, the syntax
\* errors in the diagnostics list are those of the second attempt only: what the
\* aborted fast attempt reported is not kept, so none appears twice.
C34_OnlySecondAttemptKept ==
  (hist.op = "parse" /\ ~hist.raised /\ Len(hist.attempts) = 2) =>
    SyntaxEntries(ctx[hist.ctx].diagnostics)
      = SyntaxErrors(ctx[hist.ctx].tokenStream.text)

----------------------------------------------------------------------------
(* C33 *)

\* C33: lexer interpreter data is loaded only while the grammar kind is Lexer or
\* Combined, parser interpreter data only while it is Parser or Combined, and
\* none while the kind is Unknown, however parse, setupInterpreters and
\* generate are interleaved.
C33_DataMatchesKind ==
  \A c \in Contexts :
    /\ ctx[c].grammarLexerData # None => ctx[c].infoType \in {"Lexer", "Combined"}
    /\ ctx[c].grammarParserData # None => ctx[c].infoType \in {"Parser", "Combined"}
    /\ ctx[c].infoType = "Unknown" =>
         ctx[c].grammarLexerData = None /\ ctx[c].grammarParserData = None

\* A generation run has closed and loaded both kinds of data of a combined grammar.
C33_Witness ==
  /\ hist.op = "generateClose"
  /\ ctx[hist.ctx].infoType = "Combined"
  /\ ctx[hist.ctx].grammarLexerData # None
  /\ ctx[hist.ctx].grammarParserData # None

\* The data of a lexer grammar is loaded and a later parse finds no grammar kind.
C33_WitnessUnknown ==
  /\ hist.op = "parse"
  /\ hist.pre.grammarLexerData # None
  /\ ctx[hist.ctx].infoType = "Unknown"

----------------------------------------------------------------------------
(* C35 *)

\* The close handler of run j, having converted the output, has loaded the data
\* by the file convention of the kind generate() was called for, and has loaded
\* none over a text parsed after that call.
InstalledForStart(j, disk) ==
  LET c       == jobs[j].ctx
      started == jobs[j].started
      wanted  == SetupInterpreters([ctx[c] EXCEPT !.infoType = started.type], disk)
  IN  /\ ctx'[c].grammarLexerData = wanted.grammarLexerData
      /\ ctx'[c].grammarParserData = wanted.grammarParserData
      /\ (ctx'[c].grammarLexerData # None \/ ctx'[c].grammarParserData # None)
           => ctx[c].parser = started.parsed

\* C35: when setText and parse() run on a context while a generate() call on it
\* (made after a parse) waits for the external process, the data installed when the process closes
\* belongs to the text and the kind generate() was started for: it is loaded by
\* the file convention of that kind and never over the state of a newer parse.
C35_InstalledDataOfStart ==
  [][\A j \in 1..Len(jobs), disk \in ReloadDisks :
       (generateClose(j, TRUE, disk) /\ jobs[j].started.parsed # None)
         => InstalledForStart(j, disk)]_vars

----------------------------------------------------------------------------
(* C37 *)

\* The indices of the node list, as the links count them (from 0).
NodeIndices == 0..(Len(atnGraph.nodes) - 1)

\* C37: the graph getATNGraph builds and returns is well-formed: node 0 is the
\* start state of the rule, the source and the target of every link are indices
\* into the node list, the rule nodes have the ids -1, -2, ... in the order they
\* were made, the nodes of states have ids that are not negative, and no two
\* nodes have the same id.
C37_GraphWellFormed ==
  (atnGraph.defined /\ atnGraph.nodes # <<>>) =>
    /\ atnGraph.nodes[1].id = ATNs[atnGraph.atn].ruleToStartState[RuleIndex(atnGraph.atn, atnGraph.rule)]
    /\ atnGraph.nodes[1].type = ATNStateType["RULE_START"]
    /\ \A k \in 1..Len(atnGraph.links) :
         atnGraph.links[k].source \in NodeIndices /\ atnGraph.links[k].target \in NodeIndices
    /\ \A k \in 1..Len(atnGraph.nodes) :
         IF k \in RuleNodes
           THEN atnGraph.nodes[k].id = -Cardinality({r \in RuleNodes : r <= k})
           ELSE atnGraph.nodes[k].id >= 0
    /\ \A k, m \in 1..Len(atnGraph.nodes) :
         atnGraph.nodes[k].id = atnGraph.nodes[m].id => k = m

\* A returned graph with links and the nodes of two called rules.
C37_Witness ==
  /\ atnGraph.pc = "done"
  /\ atnGraph.defined
  /\ Cardinality(RuleNodes) >= 2
  /\ Len(atnGraph.links) >= 2

----------------------------------------------------------------------------
(* C38 *)

\* The occurrences that have a definition, in their order.
WithDefinition(occurences) == SelectSeq(occurences, LAMBDA symbol : symbol.definition.defined)

\* One edit per occurrence with a definition, each replacing `range(definition)`
\* in the file of the occurrence by the new name.
EditsWith(range(_, _)) ==
  LET defined == WithDefinition(pureCall.occurences)
      edits   == pureCall.result.edits
  IN  /\ Len(edits) = Len(defined)
      /\ \A i \in 1..Len(defined) :
           /\ edits[i].uri = defined[i].source
           /\ edits[i].newText = pureCall.newName
           /\ edits[i].range = range(defined[i].definition, pureCall.info.name)

\* C38: provideRenameEdits returns no result when no symbol is found; otherwise
\* it makes one replacement per occurrence with a definition and none for the
\* others, and each replaced range starts at the start of the definition (row
\* from 1-based to 0-based, same column), lies on one line and is
\* info.name.length columns wide.
C38_RenameCoversOldName ==
  pureCall.op = "provideRenameEdits" =>
    IF ~pureCall.info.found
      THEN ~pureCall.result.defined
      ELSE pureCall.result.defined /\ EditsWith(RenameRangeOnStartLine)

\* What does hold: the same with a range that ends on the row the definition ends on.
RenameEndsWithDefinition ==
  pureCall.op = "provideRenameEdits" =>
    IF ~pureCall.info.found
      THEN ~pureCall.result.defined
      ELSE pureCall.result.defined /\ EditsWith(RenameRange)

====
